---------------------------- MODULE Spec2Model ----------------------------
(***************************************************************************)
(* Retirement Monte Carlo engine (apps/engine): the year-by-year kernel    *)
(* simulate_once, its helpers, and the optimizer find_max_E.               *)
(*                                                                         *)
(* Numbers.  The code computes in float64.  Here every real is a fixed-    *)
(* point integer: money in whole units, every fraction, rate and drawdown  *)
(* in units of 1/Scale, products rounded down.  The code's 1e-9 tolerance  *)
(* is below one unit, so `x > 1e-9` reads `x > 0` and `a < b - 1e-9`       *)
(* reads `a < b`, `x < 1e-9` reads `x <= 0`.  Probabilities are in units   *)
(* of 1/PScale.                                                            *)
(***************************************************************************)
EXTENDS Integers, Sequences, FiniteSets, TLC

Scale == 100

\* (1 + r) ** n is held in units of 1/PowScale
PowScale == Scale * Scale

\* probabilities are held in units of 1/PScale
PScale == 10 * Scale

\* Horizon: the number of simulated years (columns of the returns matrix).
Horizon == 3

Max(a, b) == IF a >= b THEN a ELSE b

Min(a, b) == IF a <= b THEN a ELSE b

\* x * f for a fraction f given in 1/Scale
Frac(x, f) == (x * f) \div Scale

\* x * (1 + r) for a rate r given in 1/Scale
Grow(x, r) == (x * (Scale + r)) \div Scale

\* int(x) of Python: truncation toward zero of num/den, den > 0
TruncDiv(num, den) == IF num >= 0 THEN num \div den ELSE -((-num) \div den)

(***************************************************************************)
(* loan.py                                                                 *)
(***************************************************************************)
RECURSIVE Pow1p(_, _)
\* (1 + r) ** n in units of 1/PowScale, n >= 0
Pow1p(r, n) == IF n = 0 THEN PowScale ELSE (Pow1p(r, n - 1) * (Scale + r)) \div Scale

\* 1 - (1 + r) ** (-n) in units of 1/PowScale: the denominator of amort_payment
AmortDenom(r, n) == PowScale - ((PowScale * PowScale) \div Pow1p(r, n))

\* a mutant of amort_payment: the payment covers the interest only
amort_payment_interest_only(principal, rate_real, term_years) ==
    IF principal <= 0 THEN 0 ELSE Frac(principal, rate_real)

amort_payment(principal, rate_real, term_years) ==
    IF principal <= 0 THEN 0
    ELSE (rate_real * principal * PowScale) \div (Scale * AmortDenom(rate_real, term_years))

loan_balance_after_k(principal, rate_real, payment, k) ==
    IF principal <= 0 THEN 0
    ELSE LET pw == Pow1p(rate_real, k)
         IN  ((principal * pw) \div PowScale)
             - ((payment * (((pw - PowScale) * Scale) \div rate_real)) \div PowScale)

(***************************************************************************)
(* guardrails.py                                                           *)
(***************************************************************************)
compute_cuts(dd, dd1, dd2, cut1, cut2) ==
    LET c0 == IF dd >= dd2 THEN cut2 ELSE 0
    IN  IF dd >= dd1 /\ dd < dd2 THEN cut1 ELSE c0

(***************************************************************************)
(* accounts.py                                                             *)
(***************************************************************************)
\* the mutant of take_from: the whole amount is withdrawn, whatever the balance
take_from_overdraw(arr, amount) == [arr |-> arr - amount, rem |-> 0]

\* take_from on one lane: the new balance and the remaining amount
take_from(arr, amount) ==
    LET take == Min(amount, Max(arr, 0))
    IN  [arr |-> arr - take, rem |-> amount - take]

(***************************************************************************)
(* engine.py: build_withdrawals                                            *)
(***************************************************************************)
earned_income(c, age) ==
    IF c.earned_income_annual_real <= 0 THEN 0
    ELSE IF age < c.earned_income_start_age \/ age > c.earned_income_end_age THEN 0
    ELSE c.earned_income_annual_real

\* w[t] of build_withdrawals for spending level E
build_withdrawals(c, E, t) ==
    IF c.income_applies_to_actual_spend
    THEN IF t = 0 THEN Max(0, Frac(E, c.partial_year_fraction)) ELSE Max(0, E)
    ELSE LET age == c.start_age + t
             ss  == IF age >= c.ss_start_age THEN c.ss_annual_real ELSE 0
         IN  IF t = 0
             THEN Max(0, Frac(E, c.partial_year_fraction)
                         - Frac(ss, c.partial_year_fraction)
                         - Frac(earned_income(c, age), c.partial_year_fraction))
             ELSE Max(0, E - ss - earned_income(c, age))

\* safe_targets(w, t, reserve_years, reserve_cash_fraction): (tgt_cash, tgt_base)
safe_targets(c, E, n_years, t) ==
    LET nxt       == build_withdrawals(c, E, Min(t + 1, n_years - 1))
        tgt_total == c.reserve_years * nxt
        tgt_cash  == Frac(tgt_total, c.reserve_cash_fraction)
    IN  [cash |-> tgt_cash, base |-> tgt_total - tgt_cash]

(***************************************************************************)
(* engine.py: simulate_once.  c is the keyword record of the call (every   *)
(* parameter but returns), R the returns matrix R[i][t] in 1/Scale, k the  *)
(* record of the per-path arrays, each a function on Paths(c).             *)
(***************************************************************************)
Paths(c) == 0 .. (c.n_sims - 1)

\* returns.shape[1]
NYears(R) == Cardinality(DOMAIN R[0])

has_loan(c) == c.loan_amount > 0

pay(c) == amort_payment(c.loan_amount, c.loan_real_rate, c.loan_term_years)

rm_open_t(c) == c.rm_open_age - c.start_age

rm_limit_open(c) == Frac(c.home_value_real, c.rm_plf_at_open)

floor_assets(c, t) ==
    IF t = 0 THEN Frac(c.floor_annual_real, c.partial_year_fraction)
    ELSE c.floor_annual_real

pre_flex_pct(c) ==
    IF c.baseline_e_for_flex > 0
    THEN (c.baseline_flex_pre * Scale) \div c.baseline_e_for_flex ELSE 0

post_flex_pct(c) ==
    IF c.baseline_net_post_ss > 0
    THEN (c.baseline_flex_post * Scale) \div c.baseline_net_post_ss ELSE 0

\* the arrays as allocated before the year loop
InitArrays(c, R) ==
    LET tgt       == safe_targets(c, c.E, NYears(R), 0)
        init_safe == Min(tgt.cash + tgt.base, c.start_portfolio)
        cash0     == Min(tgt.cash, init_safe)
        base0     == Max(0, init_safe - cash0)
        risky0    == c.start_portfolio - init_safe
        loan0     == IF has_loan(c) THEN c.loan_amount ELSE 0
        zero      == [i \in Paths(c) |-> 0]
    IN  [ cash         |-> [i \in Paths(c) |-> cash0],
          base_treas   |-> [i \in Paths(c) |-> base0],
          risky        |-> [i \in Paths(c) |-> risky0],
          loan_bucket  |-> [i \in Paths(c) |-> loan0],
          loan_bal     |-> [i \in Paths(c) |-> loan0],
          hwm          |-> [i \in Paths(c) |-> risky0],
          max_dd_risky |-> zero,
          hwm_total    |-> [i \in Paths(c) |-> cash0 + base0 + risky0 + loan0 - loan0],
          max_dd_total |-> zero,
          rm_limit     |-> zero,
          rm_bal       |-> zero,
          rm_ever_used |-> [i \in Paths(c) |-> FALSE],
          failed       |-> [i \in Paths(c) |-> FALSE],
          fail_idx     |-> [i \in Paths(c) |-> NYears(R)],
          \* locals of the year loop, unassigned before the first year
          drawdown     |-> zero,
          desired      |-> zero,
          max_feasible |-> zero,
          asset_desired     |-> zero,
          floor_need_assets |-> zero,
          surplus      |-> zero,
          spend_assets |-> zero,
          rem          |-> zero,
          take_loan    |-> zero,
          take_rm      |-> zero,
          take_rm2     |-> zero,
          add_cash     |-> zero,
          add_base     |-> zero,
          repay_take   |-> zero ]

\* growth and drawdown (lines 163-179)
Growth(k, c, R, t) ==
    LET risky1 == [i \in Paths(c) |-> Grow(k.risky[i], R[i][t])]
        cash1  == [i \in Paths(c) |-> Grow(k.cash[i], c.safe_real_return)]
        base1  == [i \in Paths(c) |-> Grow(k.base_treas[i], c.safe_real_return)]
        lb1    == [i \in Paths(c) |->
                     IF has_loan(c) THEN Grow(k.loan_bucket[i], c.loan_bucket_real_return)
                     ELSE k.loan_bucket[i]]
        hwm1   == [i \in Paths(c) |-> Max(k.hwm[i], risky1[i])]
        dd     == [i \in Paths(c) |->
                     IF hwm1[i] > 0 THEN Scale - ((risky1[i] * Scale) \div hwm1[i]) ELSE 0]
        tn     == [i \in Paths(c) |->
                     cash1[i] + base1[i] + risky1[i] + lb1[i] - k.loan_bal[i]]
        hwmt   == [i \in Paths(c) |-> Max(k.hwm_total[i], tn[i])]
        ddt    == [i \in Paths(c) |->
                     Scale - (IF hwmt[i] > 0 THEN (tn[i] * Scale) \div hwmt[i] ELSE 0)]
    IN  [k EXCEPT !.risky = risky1, !.cash = cash1, !.base_treas = base1,
                  !.loan_bucket = lb1, !.hwm = hwm1, !.drawdown = dd,
                  !.max_dd_risky = [i \in Paths(c) |-> Max(k.max_dd_risky[i], dd[i])],
                  !.hwm_total = hwmt,
                  !.max_dd_total = [i \in Paths(c) |-> Max(k.max_dd_total[i], ddt[i])]]

\* one lane of the pre-RM loan payment: cash, base_treas, risky, then the loan
\* bucket where allowed (lines 183-192)
LoanPayLane(k, c, i) ==
    LET a1    == take_from(k.cash[i], pay(c))
        a2    == take_from(k.base_treas[i], a1.rem)
        a3    == take_from(k.risky[i], a2.rem)
        allow == k.drawdown[i] >= c.loan_bucket_use_dd /\ ~k.failed[i] /\ a3.rem > 0
        take  == IF allow THEN Min(a3.rem, k.loan_bucket[i]) ELSE 0
    IN  [cash |-> a1.arr, base_treas |-> a2.arr, risky |-> a3.arr,
         loan_bucket |-> k.loan_bucket[i] - take, rem |-> a3.rem - take]

\* loan payment before RM open (lines 181-204)
LoanPayment(k, c, t) ==
    IF has_loan(c) /\ t < rm_open_t(c)
    THEN LET L  == [i \in Paths(c) |-> LoanPayLane(k, c, i)]
             nf == [i \in Paths(c) |-> ~k.failed[i] /\ L[i].rem > 0]
             bal == IF t + 1 <= c.loan_term_years
                    THEN loan_balance_after_k(c.loan_amount, c.loan_real_rate, pay(c), t + 1)
                    ELSE 0
         IN  [k EXCEPT !.cash = [i \in Paths(c) |-> L[i].cash],
                       !.base_treas = [i \in Paths(c) |-> L[i].base_treas],
                       !.risky = [i \in Paths(c) |-> L[i].risky],
                       !.loan_bucket = [i \in Paths(c) |-> L[i].loan_bucket],
                       !.rem = [i \in Paths(c) |-> L[i].rem],
                       !.failed = [i \in Paths(c) |-> k.failed[i] \/ nf[i]],
                       !.fail_idx = [i \in Paths(c) |-> IF nf[i] THEN t ELSE k.fail_idx[i]],
                       !.loan_bal = [i \in Paths(c) |-> bal]]
    ELSE k

\* the mutant of avail_rm: the whole credit line, whatever is already drawn
avail_rm_whole_limit(rm_limit, rm_bal) == Max(0, rm_limit)

\* avail_rm = max(0, rm_limit - rm_bal) (lines 220, 228, 264, 341, 352)
avail_rm(rm_limit, rm_bal) == Max(0, rm_limit - rm_bal)

\* take_from(arr[mask], amount[mask]): indexing with a boolean mask yields a
\* copy, so the in-place `arr -= take` of take_from is lost and only the
\* remaining amount comes back
take_from_masked(arr, amount) == [arr |-> arr, rem |-> take_from(arr, amount).rem]

\* one lane of the lien payoff at RM open (lines 211-241); rm_limit is the
\* limit just set at line 208
PayoffLane(k, c, i, rm_limit) ==
    LET risky_first == k.drawdown[i] <= c.payoff_dd_threshold
        p0   == k.loan_bal[i]
        \* risky-first lanes draw on risky before the credit line, the others after
        r1   == IF risky_first THEN take_from_masked(k.risky[i], p0)
                ELSE [arr |-> k.risky[i], rem |-> p0]
        take == Min(r1.rem, avail_rm(rm_limit, k.rm_bal[i]))
        p2   == r1.rem - take
        r3   == IF risky_first THEN [arr |-> r1.arr, rem |-> p2]
                ELSE take_from_masked(r1.arr, p2)
        a4   == take_from(k.base_treas[i], r3.rem)
        a5   == take_from(k.cash[i], a4.rem)
        a6   == take_from(k.loan_bucket[i], a5.rem)
    IN  [risky |-> r3.arr, rm_bal |-> k.rm_bal[i] + take, base_treas |-> a4.arr,
         cash |-> a5.arr, loan_bucket |-> a6.arr, payoff |-> a6.rem]

\* RM open + lien payoff (lines 206-248)
RMOpen(k, c, t) ==
    IF t = rm_open_t(c)
    THEN LET lim == Grow(rm_limit_open(c), c.rm_limit_real_growth)
             k1  == [k EXCEPT !.rm_limit = [i \in Paths(c) |-> lim]]
         IN  IF has_loan(c)
             THEN LET L  == [i \in Paths(c) |-> PayoffLane(k, c, i, lim)]
                      nf == [i \in Paths(c) |-> ~k.failed[i] /\ L[i].payoff > 0]
                  IN  [k1 EXCEPT !.risky = [i \in Paths(c) |-> L[i].risky],
                                 !.rm_bal = [i \in Paths(c) |-> L[i].rm_bal],
                                 !.base_treas = [i \in Paths(c) |-> L[i].base_treas],
                                 !.cash = [i \in Paths(c) |-> L[i].cash],
                                 !.loan_bucket = [i \in Paths(c) |-> L[i].loan_bucket],
                                 !.rem = [i \in Paths(c) |-> L[i].payoff],
                                 !.failed = [i \in Paths(c) |-> k.failed[i] \/ nf[i]],
                                 !.fail_idx = [i \in Paths(c) |->
                                                 IF nf[i] THEN t ELSE k.fail_idx[i]],
                                 !.loan_bal = [i \in Paths(c) |-> 0]]
             ELSE k1
    ELSE k

\* RM growth (lines 250-253)
RMGrowth(k, c, t) ==
    IF t >= rm_open_t(c)
    THEN [k EXCEPT !.rm_limit = [i \in Paths(c) |-> Grow(k.rm_limit[i], c.rm_limit_real_growth)],
                   !.rm_bal = [i \in Paths(c) |-> Grow(k.rm_bal[i], c.rm_bal_real_rate)]]
    ELSE k

\* income_scalar of year t (lines 273-287)
income_scalar(c, t) ==
    IF c.income_applies_to_actual_spend
    THEN LET age == c.start_age + t
             ei  == IF c.earned_income_annual_real > 0
                       /\ c.earned_income_start_age <= age
                       /\ age <= c.earned_income_end_age
                    THEN c.earned_income_annual_real ELSE 0
             ss  == IF age >= c.ss_start_age THEN c.ss_annual_real ELSE 0
         IN  IF t = 0
             THEN Frac(ss, c.partial_year_fraction) + Frac(ei, c.partial_year_fraction)
             ELSE ss + ei
    ELSE 0

\* desired[i] of year t (lines 256-261)
DesiredLane(k, c, n_years, t, i) ==
    LET wt       == build_withdrawals(c, c.E, t)
        flex_pct == IF c.start_age + t < c.ss_start_age
                    THEN pre_flex_pct(c) ELSE post_flex_pct(c)
        flex_amt == Min(Frac(wt, flex_pct), wt)
        floor_amt == wt - flex_amt
        cut      == compute_cuts(k.drawdown[i], c.dd1, c.dd2, c.cut1, c.cut2)
    IN  floor_amt + Frac(flex_amt, Scale - cut)

\* max_feasible[i] (lines 264-268)
MaxFeasibleLane(k, c, i) ==
    LET accessible_loan == IF k.drawdown[i] >= c.loan_bucket_use_dd
                           THEN k.loan_bucket[i] ELSE 0
    IN  k.cash[i] + k.base_treas[i] + Max(k.risky[i], 0)
        + avail_rm(k.rm_limit[i], k.rm_bal[i]) + accessible_loan

\* the deposit of one lane's surplus (lines 295-311): the new cash, base_treas, risky
SurplusLane(k, c, n_years, t, i, surplus) ==
    IF c.surplus_allocation = "risky_first"
    THEN [cash |-> k.cash[i], base_treas |-> k.base_treas[i],
          risky |-> k.risky[i] + surplus]
    ELSE LET tgt      == safe_targets(c, c.E, n_years, t)
             add_cash == Min(Max(0, tgt.cash - k.cash[i]), surplus)
             s1       == surplus - add_cash
             add_base == Min(Max(0, tgt.base - k.base_treas[i]), s1)
         IN  [cash |-> k.cash[i] + add_cash, base_treas |-> k.base_treas[i] + add_base,
              risky |-> k.risky[i] + (s1 - add_base)]

\* a mutant of Income: the surplus is deposited only when allow_surplus_savings
\* is set
Income_savings_flag(k, c, n_years, t) ==
    LET desired == [i \in Paths(c) |-> DesiredLane(k, c, n_years, t, i)]
        maxf    == [i \in Paths(c) |-> MaxFeasibleLane(k, c, i)]
        floor_need == floor_assets(c, t)
        inc     == income_scalar(c, t)
        k1      == [k EXCEPT !.desired = desired, !.max_feasible = maxf]
    IN  IF inc > 0
        THEN LET surplus == [i \in Paths(c) |-> Max(0, inc - desired[i])]
                 k2 == [k1 EXCEPT
                          !.asset_desired = [i \in Paths(c) |-> Max(0, desired[i] - inc)],
                          !.floor_need_assets = [i \in Paths(c) |-> Max(0, floor_need - inc)],
                          !.surplus = surplus]
             IN  IF c.allow_surplus_savings /\ \E i \in Paths(c) : surplus[i] > 0
                 THEN LET D == [i \in Paths(c) |-> SurplusLane(k, c, n_years, t, i, surplus[i])]
                      IN  [k2 EXCEPT !.cash = [i \in Paths(c) |-> D[i].cash],
                                     !.base_treas = [i \in Paths(c) |-> D[i].base_treas],
                                     !.risky = [i \in Paths(c) |-> D[i].risky]]
                 ELSE k2
        ELSE [k1 EXCEPT !.asset_desired = desired,
                        !.floor_need_assets = [i \in Paths(c) |-> floor_need]]

\* desired spend, feasibility ceiling, income application (lines 255-314)
Income(k, c, n_years, t) ==
    LET desired == [i \in Paths(c) |-> DesiredLane(k, c, n_years, t, i)]
        maxf    == [i \in Paths(c) |-> MaxFeasibleLane(k, c, i)]
        floor_need == floor_assets(c, t)
        inc     == income_scalar(c, t)
        k1      == [k EXCEPT !.desired = desired, !.max_feasible = maxf]
    IN  IF inc > 0
        THEN LET surplus == [i \in Paths(c) |-> Max(0, inc - desired[i])]
                 k2 == [k1 EXCEPT
                          !.asset_desired = [i \in Paths(c) |-> Max(0, desired[i] - inc)],
                          !.floor_need_assets = [i \in Paths(c) |-> Max(0, floor_need - inc)],
                          !.surplus = surplus]
             IN  IF \E i \in Paths(c) : surplus[i] > 0
                 THEN LET D == [i \in Paths(c) |-> SurplusLane(k, c, n_years, t, i, surplus[i])]
                      IN  [k2 EXCEPT !.cash = [i \in Paths(c) |-> D[i].cash],
                                     !.base_treas = [i \in Paths(c) |-> D[i].base_treas],
                                     !.risky = [i \in Paths(c) |-> D[i].risky]]
                 ELSE k2
        ELSE [k1 EXCEPT !.asset_desired = desired,
                        !.floor_need_assets = [i \in Paths(c) |-> floor_need]]

\* a mutant of Spend: the feasibility check is not masked by ~failed, so a
\* lane that failed earlier has fail_idx written again
Spend_refail(k, c, t) ==
    LET nf == [i \in Paths(c) |-> k.max_feasible[i] < k.floor_need_assets[i]]
        failed1 == [i \in Paths(c) |-> k.failed[i] \/ nf[i]]
    IN  [k EXCEPT !.failed = failed1,
                  !.fail_idx = [i \in Paths(c) |-> IF nf[i] THEN t ELSE k.fail_idx[i]],
                  !.spend_assets = [i \in Paths(c) |->
                      IF ~failed1[i]
                      THEN Max(Min(k.asset_desired[i], k.max_feasible[i]),
                               k.floor_need_assets[i])
                      ELSE 0]]

\* the mutant of Spend: spend_assets is not zeroed on failed lanes
Spend_ungated(k, c, t) ==
    LET nf == [i \in Paths(c) |->
                 ~k.failed[i] /\ k.max_feasible[i] < k.floor_need_assets[i]]
    IN  [k EXCEPT !.failed = [i \in Paths(c) |-> k.failed[i] \/ nf[i]],
                  !.fail_idx = [i \in Paths(c) |-> IF nf[i] THEN t ELSE k.fail_idx[i]],
                  !.spend_assets = [i \in Paths(c) |->
                      Max(Min(k.asset_desired[i], k.max_feasible[i]),
                          k.floor_need_assets[i])]]

\* a mutant of Spend: spend_assets is not capped at max_feasible
Spend_uncapped(k, c, t) ==
    LET nf == [i \in Paths(c) |->
                 ~k.failed[i] /\ k.max_feasible[i] < k.floor_need_assets[i]]
        failed1 == [i \in Paths(c) |-> k.failed[i] \/ nf[i]]
    IN  [k EXCEPT !.failed = failed1,
                  !.fail_idx = [i \in Paths(c) |-> IF nf[i] THEN t ELSE k.fail_idx[i]],
                  !.spend_assets = [i \in Paths(c) |->
                      IF ~failed1[i]
                      THEN Max(k.asset_desired[i], k.floor_need_assets[i])
                      ELSE 0]]

\* a mutant of Spend: one infeasible lane marks every live lane failed
Spend_shared_failure(k, c, t) ==
    LET any == \E j \in Paths(c) :
                  ~k.failed[j] /\ k.max_feasible[j] < k.floor_need_assets[j]
        nf == [i \in Paths(c) |-> ~k.failed[i] /\ any]
        failed1 == [i \in Paths(c) |-> k.failed[i] \/ nf[i]]
    IN  [k EXCEPT !.failed = failed1,
                  !.fail_idx = [i \in Paths(c) |-> IF nf[i] THEN t ELSE k.fail_idx[i]],
                  !.spend_assets = [i \in Paths(c) |->
                      IF ~failed1[i]
                      THEN Max(Min(k.asset_desired[i], k.max_feasible[i]),
                               k.floor_need_assets[i])
                      ELSE 0]]

\* feasibility failure and spend_assets (lines 316-325)
Spend(k, c, t) ==
    LET nf == [i \in Paths(c) |->
                 ~k.failed[i] /\ k.max_feasible[i] < k.floor_need_assets[i]]
        failed1 == [i \in Paths(c) |-> k.failed[i] \/ nf[i]]
    IN  [k EXCEPT !.failed = failed1,
                  !.fail_idx = [i \in Paths(c) |-> IF nf[i] THEN t ELSE k.fail_idx[i]],
                  !.spend_assets = [i \in Paths(c) |->
                      IF ~failed1[i]
                      THEN Max(Min(k.asset_desired[i], k.max_feasible[i]),
                               k.floor_need_assets[i])
                      ELSE 0]]

\* a mutant of FundingLane: the first loan-bucket draw is neither gated by
\* loan_bucket > 0 nor clamped to the bucket
FundingLane_unclamped(k, c, i) ==
    LET a1 == take_from(k.cash[i], k.spend_assets[i])
        a2 == take_from(k.base_treas[i], a1.rem)
        allow == k.drawdown[i] >= c.loan_bucket_use_dd /\ ~k.failed[i]
        take_loan == IF allow THEN Frac(a2.rem, c.loan_bucket_partial_cover) ELSE 0
        lb1  == k.loan_bucket[i] - take_loan
        rem3 == a2.rem - take_loan
        take_rm == IF k.drawdown[i] >= c.dd2 /\ ~k.failed[i]
                   THEN Min(Frac(rem3, c.rm_partial_cover),
                            avail_rm(k.rm_limit[i], k.rm_bal[i]))
                   ELSE 0
        rm1  == k.rm_bal[i] + take_rm
        a5   == take_from(k.risky[i], rem3 - take_rm)
        take_rm2 == Min(a5.rem, avail_rm(k.rm_limit[i], rm1))
        rem6 == a5.rem - take_rm2
        allow2 == k.drawdown[i] >= c.loan_bucket_use_dd /\ ~k.failed[i] /\ rem6 > 0
        take == IF allow2 THEN Min(rem6, Max(lb1, 0)) ELSE 0
    IN  [cash |-> a1.arr, base_treas |-> a2.arr, risky |-> a5.arr,
         loan_bucket |-> lb1 - take, rm_bal |-> rm1 + take_rm2, rem |-> rem6 - take,
         take_loan |-> take_loan, take_rm |-> take_rm, take_rm2 |-> take_rm2]

\* a mutant of FundingLane: the partial RM draw is not gated by dd >= dd2
FundingLane_rm_ungated(k, c, i) ==
    LET a1 == take_from(k.cash[i], k.spend_assets[i])
        a2 == take_from(k.base_treas[i], a1.rem)
        allow == k.drawdown[i] >= c.loan_bucket_use_dd /\ ~k.failed[i]
                 /\ k.loan_bucket[i] > 0
        take_loan == IF allow
                     THEN Min(Frac(a2.rem, c.loan_bucket_partial_cover), k.loan_bucket[i])
                     ELSE 0
        lb1  == k.loan_bucket[i] - take_loan
        rem3 == a2.rem - take_loan
        take_rm == IF ~k.failed[i]
                   THEN Min(Frac(rem3, c.rm_partial_cover),
                            avail_rm(k.rm_limit[i], k.rm_bal[i]))
                   ELSE 0
        rm1  == k.rm_bal[i] + take_rm
        a5   == take_from(k.risky[i], rem3 - take_rm)
        take_rm2 == Min(a5.rem, avail_rm(k.rm_limit[i], rm1))
        rem6 == a5.rem - take_rm2
        allow2 == k.drawdown[i] >= c.loan_bucket_use_dd /\ ~k.failed[i] /\ rem6 > 0
        take == IF allow2 THEN Min(rem6, lb1) ELSE 0
    IN  [cash |-> a1.arr, base_treas |-> a2.arr, risky |-> a5.arr,
         loan_bucket |-> lb1 - take, rm_bal |-> rm1 + take_rm2, rem |-> rem6 - take,
         take_loan |-> take_loan, take_rm |-> take_rm, take_rm2 |-> take_rm2]

\* one lane of the funding order (lines 327-361)
FundingLane(k, c, i) ==
    LET a1 == take_from(k.cash[i], k.spend_assets[i])
        a2 == take_from(k.base_treas[i], a1.rem)
        allow == k.drawdown[i] >= c.loan_bucket_use_dd /\ ~k.failed[i]
                 /\ k.loan_bucket[i] > 0
        take_loan == IF allow
                     THEN Min(Frac(a2.rem, c.loan_bucket_partial_cover), k.loan_bucket[i])
                     ELSE 0
        lb1  == k.loan_bucket[i] - take_loan
        rem3 == a2.rem - take_loan
        take_rm == IF k.drawdown[i] >= c.dd2 /\ ~k.failed[i]
                   THEN Min(Frac(rem3, c.rm_partial_cover),
                            avail_rm(k.rm_limit[i], k.rm_bal[i]))
                   ELSE 0
        rm1  == k.rm_bal[i] + take_rm
        a5   == take_from(k.risky[i], rem3 - take_rm)
        take_rm2 == Min(a5.rem, avail_rm(k.rm_limit[i], rm1))
        rem6 == a5.rem - take_rm2
        allow2 == k.drawdown[i] >= c.loan_bucket_use_dd /\ ~k.failed[i] /\ rem6 > 0
        take == IF allow2 THEN Min(rem6, lb1) ELSE 0
    IN  [cash |-> a1.arr, base_treas |-> a2.arr, risky |-> a5.arr,
         loan_bucket |-> lb1 - take, rm_bal |-> rm1 + take_rm2, rem |-> rem6 - take,
         take_loan |-> take_loan, take_rm |-> take_rm, take_rm2 |-> take_rm2]

Funding(k, c) ==
    LET F == [i \in Paths(c) |-> FundingLane(k, c, i)]
    IN  [k EXCEPT !.cash = [i \in Paths(c) |-> F[i].cash],
                  !.base_treas = [i \in Paths(c) |-> F[i].base_treas],
                  !.risky = [i \in Paths(c) |-> F[i].risky],
                  !.loan_bucket = [i \in Paths(c) |-> F[i].loan_bucket],
                  !.rm_bal = [i \in Paths(c) |-> F[i].rm_bal],
                  !.rem = [i \in Paths(c) |-> F[i].rem],
                  !.take_loan = [i \in Paths(c) |-> F[i].take_loan],
                  !.take_rm = [i \in Paths(c) |-> F[i].take_rm],
                  !.take_rm2 = [i \in Paths(c) |-> F[i].take_rm2]]

\* good[i] (line 364)
good(k, c, i) == k.drawdown[i] < c.dd1 /\ ~k.failed[i]

\* a mutant of RefillLane: the refill is not limited to what risky holds
RefillLane_unclamped(k, c, n_years, t, i) ==
    LET tgt       == safe_targets(c, c.E, n_years, t)
        need_cash == Max(0, tgt.cash - k.cash[i])
        add_cash  == IF good(k, c, i) THEN need_cash ELSE 0
        risky1    == k.risky[i] - add_cash
        need_base == Max(0, tgt.base - k.base_treas[i])
        add_base  == IF good(k, c, i) THEN need_base ELSE 0
    IN  [cash |-> k.cash[i] + add_cash, base_treas |-> k.base_treas[i] + add_base,
         risky |-> risky1 - add_base, add_cash |-> add_cash, add_base |-> add_base]

\* one lane of the reserve refill (lines 363-377)
RefillLane(k, c, n_years, t, i) ==
    LET tgt       == safe_targets(c, c.E, n_years, t)
        need_cash == Max(0, tgt.cash - k.cash[i])
        add_cash  == IF good(k, c, i) THEN Min(need_cash, Max(k.risky[i], 0)) ELSE 0
        risky1    == k.risky[i] - add_cash
        need_base == Max(0, tgt.base - k.base_treas[i])
        add_base  == IF good(k, c, i) THEN Min(need_base, Max(risky1, 0)) ELSE 0
    IN  [cash |-> k.cash[i] + add_cash, base_treas |-> k.base_treas[i] + add_base,
         risky |-> risky1 - add_base, add_cash |-> add_cash, add_base |-> add_base]

Refill(k, c, n_years, t) ==
    LET F == [i \in Paths(c) |-> RefillLane(k, c, n_years, t, i)]
    IN  [k EXCEPT !.cash = [i \in Paths(c) |-> F[i].cash],
                  !.base_treas = [i \in Paths(c) |-> F[i].base_treas],
                  !.risky = [i \in Paths(c) |-> F[i].risky],
                  !.add_cash = [i \in Paths(c) |-> F[i].add_cash],
                  !.add_base = [i \in Paths(c) |-> F[i].add_base]]

\* repay_take[i] (lines 380-382)
RepayTake(k, c, i) ==
    LET recovered == k.drawdown[i] <= 0 /\ good(k, c, i) /\ k.rm_bal[i] > 0
        repay_amt == IF recovered THEN Frac(k.rm_bal[i], c.rm_repay_rate) ELSE 0
    IN  Min(repay_amt, Max(k.risky[i], 0))

\* repay RM at new highs, and the usage latch (lines 379-386)
Repay(k, c) ==
    LET rt  == [i \in Paths(c) |-> RepayTake(k, c, i)]
        rm1 == [i \in Paths(c) |-> k.rm_bal[i] - rt[i]]
    IN  [k EXCEPT !.risky = [i \in Paths(c) |-> k.risky[i] - rt[i]],
                  !.rm_bal = rm1,
                  !.repay_take = rt,
                  !.rm_ever_used = [i \in Paths(c) |-> k.rm_ever_used[i] \/ rm1[i] > 0]]

\* the body of the year loop for year t (lines 162-386); each block works on
\* the arrays the block before it left (the one-element sets bind them)
YearStep(k, c, R, t) ==
    LET n  == NYears(R)
        s1 == {Growth(k, c, R, t)}
        s2 == {LoanPayment(k1, c, t) : k1 \in s1}
        s3 == {RMOpen(k2, c, t) : k2 \in s2}
        s4 == {RMGrowth(k3, c, t) : k3 \in s3}
        s5 == {Income(k4, c, n, t) : k4 \in s4}
        s6 == {Spend(k5, c, t) : k5 \in s5}
        s7 == {Funding(k6, c) : k6 \in s6}
        s8 == {Refill(k7, c, n, t) : k7 \in s7}
    IN  CHOOSE k9 \in {Repay(k8, c) : k8 \in s8} : TRUE

RECURSIVE RunYears(_, _, _, _)
\* the arrays after years t .. n_years-1, from the arrays k before year t
RunYears(k, c, R, t) ==
    IF t >= NYears(R)
    THEN k
    ELSE CHOOSE kn \in {RunYears(k1, c, R, t + 1) : k1 \in {YearStep(k, c, R, t)}} : TRUE

(***************************************************************************)
(* mortality.py                                                            *)
(***************************************************************************)
\* SSA_ROWS: (age, qx in millionths, lx)
SSA_ROWS ==
    << <<53, 7073, 88825>>, <<54, 7675, 88196>>, <<55, 8348, 87520>>, <<56, 9051, 86789>>,
       <<57, 9822, 86003>>, <<58, 10669, 85159>>, <<59, 11548, 84250>>, <<60, 12458, 83277>>,
       <<61, 13403, 82240>>, <<62, 14450, 81138>>, <<63, 15571, 79965>>, <<64, 16737, 78720>>,
       <<65, 17897, 77402>>, <<66, 19017, 76017>>, <<67, 20213, 74572>>, <<68, 21569, 73064>>,
       <<69, 23088, 71488>>, <<70, 24828, 69838>>, <<71, 26705, 68104>>, <<72, 28761, 66285>>,
       <<73, 31116, 64379>>, <<74, 33861, 62376>>, <<75, 37088, 60263>>, <<76, 41126, 58028>>,
       <<77, 45241, 55642>>, <<78, 49793, 53125>>, <<79, 54768, 50479>>, <<80, 60660, 47715>>,
       <<81, 67027, 44820>>, <<82, 73999, 41816>>, <<83, 81737, 38722>>, <<84, 90458, 35557>>,
       <<85, 100525, 32340>>, <<86, 111793, 29089>>, <<87, 124494, 25837>>, <<88, 138398, 22621>>,
       <<89, 153207, 19490>>, <<90, 169704, 16504>>, <<91, 187963, 13703>>, <<92, 208395, 11128>>,
       <<93, 230808, 8809>>, <<94, 253914, 6776>>, <<95, 277402, 5055>>, <<96, 300882, 3653>>,
       <<97, 324326, 2554>>, <<98, 347332, 1726>>, <<99, 369430, 1126>> >>

\* dx = lx * qx of one row, in whole persons
Dx(row) == (row[3] * (row[2] \div 1000) + ((row[3] * (row[2] % 1000)) \div 1000)) \div 1000

RECURSIVE SumRows(_, _)
\* the sum of f[j] over j = 1 .. n
SumRows(f, n) == IF n = 0 THEN 0 ELSE f[n] + SumRows(f, n - 1)

\* mortality_weights: the death weights p[a] = dx[a] / sum(dx), kept as the
\* numerators dx[a] over the common denominator DxSum
DxRows == [j \in 1 .. Len(SSA_ROWS) |-> Dx(SSA_ROWS[j])]

DxSum == SumRows(DxRows, Len(SSA_ROWS))

\* a mutant of RuinCount: the lanes that have not failed by year t are counted
RuinCount_survivors(fail_idx, t) == Cardinality({i \in DOMAIN fail_idx : fail_idx[i] > t})

\* number of lanes with fail_idx <= t: n_sims * ruin_by_t[t]
RuinCount(fail_idx, t) == Cardinality({i \in DOMAIN fail_idx : fail_idx[i] <= t})

\* age_to_t.get(a, n_years - 1)
AgeToT(a, start_age, n_years) ==
    IF a >= start_age /\ a < start_age + n_years THEN a - start_age ELSE n_years - 1

\* a mutant of death_weighted_success: the sentinel is compared with >, so
\* p99 counts no path
death_weighted_success_strict(fail_idx, start_age, n_years) ==
    LET n    == Cardinality(DOMAIN fail_idx)
        surv == [j \in 1 .. Len(SSA_ROWS) |->
                   DxRows[j] * (n - RuinCount(fail_idx, AgeToT(SSA_ROWS[j][1], start_age, n_years)))]
    IN  [p_dw |-> (SumRows(surv, Len(SSA_ROWS)) * PScale) \div (DxSum * n),
         p99  |-> (Cardinality({i \in DOMAIN fail_idx : fail_idx[i] > n_years}) * PScale)
                  \div n]

\* death_weighted_success(fail_idx, ages_model): (p_dw, p99) in 1/PScale
death_weighted_success(fail_idx, start_age, n_years) ==
    LET n    == Cardinality(DOMAIN fail_idx)
        surv == [j \in 1 .. Len(SSA_ROWS) |->
                   DxRows[j] * (n - RuinCount(fail_idx, AgeToT(SSA_ROWS[j][1], start_age, n_years)))]
    IN  [p_dw |-> (SumRows(surv, Len(SSA_ROWS)) * PScale) \div (DxSum * n),
         p99  |-> (Cardinality({i \in DOMAIN fail_idx : fail_idx[i] >= n_years}) * PScale)
                  \div n]

(***************************************************************************)
(* engine.py: the metrics of simulate_once (lines 388-409)                 *)
(***************************************************************************)
\* the j-th smallest value of the array f (j = 1 is the minimum)
KthSmallest(f, j) ==
    CHOOSE v \in {f[i] : i \in DOMAIN f} :
        /\ Cardinality({i \in DOMAIN f : f[i] < v}) < j
        /\ Cardinality({i \in DOMAIN f : f[i] <= v}) >= j

\* np.median
Median(f) ==
    LET n == Cardinality(DOMAIN f)
    IN  IF n % 2 = 1 THEN KthSmallest(f, (n + 1) \div 2)
        ELSE (KthSmallest(f, n \div 2) + KthSmallest(f, (n \div 2) + 1)) \div 2

Metrics(k, c, R) ==
    LET s   == death_weighted_success(k.fail_idx, c.start_age, NYears(R))
        her == [i \in Paths(c) |-> Max(0, c.home_value_real - k.rm_bal[i])]
        tne == [i \in Paths(c) |->
                  k.cash[i] + k.base_treas[i] + k.risky[i] + k.loan_bucket[i] - k.loan_bal[i]]
    IN  [ p_success_death_weighted |-> s.p_dw,
          p_success_to_age_99      |-> s.p99,
          median_max_dd_risky      |-> Median(k.max_dd_risky),
          median_max_dd_total      |-> Median(k.max_dd_total),
          home_equity_remaining_median |-> Median(her),
          p_any_rm_draw            |->
              (Cardinality({i \in Paths(c) : k.rm_ever_used[i]}) * PScale) \div c.n_sims,
          rm_balance_end_median    |-> Median(k.rm_bal),
          risky_end_median         |-> Median(k.risky),
          total_net_end_median     |-> Median(tne),
          net_worth_end_median     |-> Median([i \in Paths(c) |-> tne[i] + her[i]]) ]

\* the arrays at the end of the year loop
FinalArrays(c, R) ==
    CHOOSE kn \in {RunYears(k0, c, R, 0) : k0 \in {InitArrays(c, R)}} : TRUE

\* simulate_once(returns=R, **c): the record of the ten metrics
simulate_once(c, R) ==
    CHOOSE m \in {Metrics(kn, c, R) : kn \in {FinalArrays(c, R)}} : TRUE

(***************************************************************************)
(* The inputs the model draws.                                             *)
(***************************************************************************)
\* the returns a matrix entry is drawn from, in 1/Scale (clipped at -99%)
RetVals == {-50, 30}

\* main.py line 35 sets n_years = 99 - start_age + 1
StartAge == 99 - Horizon + 1

Years == 0 .. (Horizon - 1)

\* the defaults of ScenarioConfig, in the model's units (money scaled down,
\* a loan term and an RM opening year that fall inside the horizon)
BaseCfg ==
    [ n_sims |-> 2, start_portfolio |-> 12000, start_age |-> StartAge,
      partial_year_fraction |-> 89, seed |-> 424242,
      reserve_years |-> 1, reserve_cash_fraction |-> 50, safe_real_return |-> 1,
      E |-> 2000, floor_annual_real |-> 1500,
      income_applies_to_actual_spend |-> TRUE,
      ss_annual_real |-> 0, ss_start_age |-> StartAge + 1,
      earned_income_annual_real |-> 0, earned_income_start_age |-> StartAge,
      earned_income_end_age |-> StartAge,
      allow_surplus_savings |-> FALSE, surplus_allocation |-> "reserve_first",
      dd1 |-> 15, dd2 |-> 25, cut1 |-> 50, cut2 |-> 100,
      baseline_e_for_flex |-> 10000, baseline_flex_pre |-> 2000,
      baseline_net_post_ss |-> 5000, baseline_flex_post |-> 1000,
      rm_open_age |-> StartAge + 1, home_value_real |-> 10000, rm_plf_at_open |-> 40,
      rm_limit_real_growth |-> 2, rm_bal_real_rate |-> 2,
      rm_partial_cover |-> 50, rm_repay_rate |-> 15, payoff_dd_threshold |-> 5,
      loan_amount |-> 0, loan_real_rate |-> 3, loan_term_years |-> 3,
      loan_bucket_real_return |-> 1, loan_bucket_use_dd |-> 15,
      loan_bucket_partial_cover |-> 50 ]

\* spending level, starting portfolio, reserve years
SpendCases == {<<2000, 1000, 0>>, <<2000, 12000, 1>>, <<6000, 3000, 1>>, <<6000, 12000, 1>>}

\* social security, income mode, surplus allocation
IncomeCases ==
    {<<0, TRUE, "reserve_first">>, <<3000, TRUE, "reserve_first">>,
     <<3000, TRUE, "risky_first">>}

\* home value, RM balance rate, loan amount
DebtCases ==
    {<<0, 2, 0>>, <<10000, 2, 0>>, <<10000, 10, 0>>,
     <<0, 2, 3000>>, <<10000, 2, 3000>>, <<10000, 10, 3000>>}

\* the scenarios of the kernel specification
Configs ==
    { [BaseCfg EXCEPT !.E = sc[1], !.start_portfolio = sc[2], !.reserve_years = sc[3],
                      !.ss_annual_real = inc[1],
                      !.income_applies_to_actual_spend = inc[2],
                      !.surplus_allocation = inc[3],
                      !.home_value_real = dc[1], !.rm_bal_real_rate = dc[2],
                      !.loan_amount = dc[3]] :
        sc \in SpendCases, inc \in IncomeCases, dc \in DebtCases }

Matrices(n_sims) == [0 .. (n_sims - 1) -> [Years -> RetVals]]

NoMetrics ==
    [ p_success_death_weighted |-> -1, p_success_to_age_99 |-> -1,
      median_max_dd_risky |-> -1, median_max_dd_total |-> -1,
      home_equity_remaining_median |-> -1, p_any_rm_draw |-> -1,
      rm_balance_end_median |-> -1, risky_end_median |-> -1,
      total_net_end_median |-> -1, net_worth_end_median |-> -1 ]

\* the scenario of the paired calls: a portfolio of four floors, no home, no loan
PairCfg ==
    [BaseCfg EXCEPT !.start_portfolio = 4000, !.floor_annual_real = 1000,
                    !.home_value_real = 0, !.loan_amount = 0]

\* the spending levels of the paired calls
PairEs == {300, 1400, 2500}

\* reserve years of the paired calls
PairReserves == {0, 1}

\* the scenario of the optimizer: a portfolio of 40 with a floor of 10 (the
\* objective passes up to some E and fails above it)
OptCfg ==
    [BaseCfg EXCEPT !.start_portfolio = 40, !.floor_annual_real = 10,
                    !.home_value_real = 0, !.reserve_years = 1,
                    !.baseline_e_for_flex = 100, !.baseline_flex_pre = 20,
                    !.baseline_net_post_ss = 50, !.baseline_flex_post = 10]

\* the same without a floor: no path can fail, the objective passes at every E
NoFloorCfg == [OptCfg EXCEPT !.floor_annual_real = 0]

\* the returns of a path: all good years, all bad years, a bad first year
Rows ==
    { [y \in Years |-> 30], [y \in Years |-> -50],
      [y \in Years |-> IF y = 0 THEN -50 ELSE 30] }

OptMatrices(n_sims) == [0 .. (n_sims - 1) -> Rows]

\* e_lo, e_hi
Brackets == {<<1, 3>>, <<8, 12>>, <<12, 16>>, <<21, 25>>}

CapBrackets == {<<300000, 480000>>, <<500000, 600000>>}

\* sim_kwargs and bracket: the scenario without a floor is searched from the
\* brackets next to the cap of the expansion
OptCases ==
    ({OptCfg} \X (Brackets \cup CapBrackets)) \cup ({NoFloorCfg} \X CapBrackets)

\* optimize_success_metric, target (in 1/PScale)
Objectives ==
    {<<"death_weighted", 900>>, <<"age_99", 500>>, <<"both_min", 1000>>,
     <<"both_weighted", 700>>}

SearchIters == {0, 2, 5}

ArgsCases(br) ==
    { [ target |-> ob[2], e_lo |-> br[1], e_hi |-> br[2], e_search_iters |-> n,
        optimize_success_metric |-> ob[1], both_weight |-> 50 ] :
        ob \in Objectives, n \in SearchIters }

\* the longest run of find_max_E followed: kernel evaluations per call
MaxEvals == 12

(***************************************************************************)
(* optimizer.py: find_max_E                                                *)
(***************************************************************************)
\* the cap of the bracket expansion (line 41)
ECap == 600000

\* objective_p(metrics) under the arguments a of find_max_E (lines 23-32)
objective_p(a, m) ==
    LET p_dw == m.p_success_death_weighted
        p99  == m.p_success_to_age_99
    IN  IF a.optimize_success_metric = "age_99" THEN p99
        ELSE IF a.optimize_success_metric = "both_min" THEN Min(p_dw, p99)
        ELSE IF a.optimize_success_metric = "both_weighted"
             THEN Frac(p_dw, a.both_weight) + Frac(p99, Scale - a.both_weight)
        ELSE p_dw

\* simulate_once(returns=R, E=e, **sim_kwargs)
KernelAt(c, R, e) ==
    CHOOSE m \in {simulate_once(ce, R) : ce \in {[c EXCEPT !.E = e]}} : TRUE

\* int(hi * 1.25)
ExpandHi(h) == TruncDiv(h * 5, 4)

\* (lo + hi) // 2
Mid(l, h) == (l + h) \div 2

\* the mutant of fails_target: the comparison the other way round
fails_target_inverted(a, m) == objective_p(a, m) > a.target

\* objective_p(metrics_lo) < target (line 35)
fails_target(a, m) == objective_p(a, m) < a.target

\* objective_p(metrics_hi) >= target and hi < 600_000 (line 41)
expands(a, h, mh) == objective_p(a, mh) >= a.target /\ h < ECap

\* the mutant of bisect_step: lo moves to mid, metrics_lo stays behind
bisect_step_stale_metrics(a, l, h, ml, mm) ==
    IF objective_p(a, mm) >= a.target
    THEN [lo |-> Mid(l, h), hi |-> h, metrics_lo |-> ml]
    ELSE [lo |-> l, hi |-> Mid(l, h) - 1, metrics_lo |-> ml]

\* one iteration of the bisection, mm the kernel result at mid (lines 48-54)
bisect_step(a, l, h, ml, mm) ==
    IF objective_p(a, mm) >= a.target
    THEN [lo |-> Mid(l, h), hi |-> h, metrics_lo |-> mm]
    ELSE [lo |-> l, hi |-> Mid(l, h) - 1, metrics_lo |-> ml]

(***************************************************************************)
(* State.  cfg, returns, k, t, metrics: one call of simulate_once (its     *)
(* keyword record, its returns matrix, its arrays, its year, its result).  *)
(* cfgb, kb: a second call on the same returns matrix.  args, lo, hi,      *)
(* metrics_lo, metrics_hi, it, result: one call of find_max_E; evaluated   *)
(* logs each (E, metrics) the kernel was called on, in call order.  pc is  *)
(* the position in the code.                                               *)
(***************************************************************************)
VARIABLES cfg, returns, k, t, pc, metrics, cfgb, kb,
          args, lo, hi, metrics_lo, metrics_hi, it, evaluated, result,
          req, gen, rows, pos, resp, sims, health

kvars == <<cfg, returns, k, t, metrics>>

pvars == <<cfgb, kb>>

ovars == <<args, lo, hi, metrics_lo, metrics_hi, it, evaluated, result>>

\* one run of the sweep driver
svars == <<req, gen, rows, pos, resp>>

\* the requests in flight at the HTTP service
wvars == <<sims, health>>

vars == <<kvars, pvars, ovars, svars, wvars, pc>>

NoArgs ==
    [ target |-> 0, e_lo |-> 0, e_hi |-> 0, e_search_iters |-> 0,
      optimize_success_metric |-> "death_weighted", both_weight |-> 0 ]

NoResult == [E |-> -1, metrics |-> NoMetrics]

NoRequest == [driver |-> "none"]

NoResponse == [status |-> "none"]

\* no second call in progress
PairIdle == cfgb = cfg /\ kb = k

\* no sweep in progress
SweepIdle ==
    /\ req = NoRequest
    /\ gen = <<>>
    /\ rows = <<>>
    /\ pos = <<0, 0, 0>>
    /\ resp = NoResponse

\* no HTTP request in flight
ServerIdle ==
    /\ sims = <<>>
    /\ health = "none"

\* no find_max_E call in progress
OptIdle ==
    /\ args = NoArgs
    /\ lo = 0
    /\ hi = 0
    /\ metrics_lo = NoMetrics
    /\ metrics_hi = NoMetrics
    /\ it = 0
    /\ evaluated = <<>>
    /\ result = NoResult

(***************************************************************************)
(* The kernel as a state machine: one call of simulate_once, one action    *)
(* per block of the year loop.                                             *)
(***************************************************************************)
Init ==
    /\ cfg \in Configs
    /\ returns \in Matrices(cfg.n_sims)
    /\ k = InitArrays(cfg, returns)
    /\ t = 0
    /\ pc = "growth"
    /\ metrics = NoMetrics
    /\ PairIdle
    /\ OptIdle
    /\ SweepIdle
    /\ ServerIdle

\* the step from block `from` to block `to`, with the arrays k1
Phase(from, to, k1) ==
    /\ pc = from
    /\ k' = k1
    /\ pc' = to
    /\ UNCHANGED <<cfg, returns, t, metrics, pvars, ovars, svars, wvars>>

DoGrowth == Phase("growth", "loan_payment", Growth(k, cfg, returns, t))

DoLoanPayment == Phase("loan_payment", "rm_open", LoanPayment(k, cfg, t))

DoRMOpen == Phase("rm_open", "rm_growth", RMOpen(k, cfg, t))

DoRMGrowth == Phase("rm_growth", "income", RMGrowth(k, cfg, t))

DoIncome == Phase("income", "spend", Income(k, cfg, NYears(returns), t))

DoSpend == Phase("spend", "funding", Spend(k, cfg, t))

DoFunding == Phase("funding", "refill", Funding(k, cfg))

DoRefill == Phase("refill", "repay", Refill(k, cfg, NYears(returns), t))

\* the last block of year t; the loop goes on to year t + 1 or ends
DoRepay ==
    /\ pc = "repay"
    /\ k' = Repay(k, cfg)
    /\ t' = t + 1
    /\ pc' = IF t + 1 < NYears(returns) THEN "growth" ELSE "metrics"
    /\ UNCHANGED <<cfg, returns, metrics, pvars, ovars, svars, wvars>>

DoMetrics ==
    /\ pc = "metrics"
    /\ metrics' = Metrics(k, cfg, returns)
    /\ pc' = "done"
    /\ UNCHANGED <<cfg, returns, k, t, pvars, ovars, svars, wvars>>

Next ==
    \/ DoGrowth
    \/ DoLoanPayment
    \/ DoRMOpen
    \/ DoRMGrowth
    \/ DoIncome
    \/ DoSpend
    \/ DoFunding
    \/ DoRefill
    \/ DoRepay
    \/ DoMetrics

Spec == Init /\ [][Next]_vars

\* year t - 1 has just ended: the state after its last block
EndOfYear == t >= 1 /\ pc \in {"growth", "metrics", "done"}

(***************************************************************************)
(* find_max_E as a state machine.  cfg holds sim_kwargs and, in cfg.E, the  *)
(* E of the kernel call being made; metrics holds what that call returned. *)
(* A kernel call is a step of its own (OptKernel); the other actions are   *)
(* the code between two calls.                                             *)
(***************************************************************************)
InitOpt ==
    /\ \E oc \in OptCases :
          /\ cfg = oc[1]
          /\ args \in ArgsCases(oc[2])
    /\ returns \in OptMatrices(cfg.n_sims)
    /\ k = InitArrays(cfg, returns)
    /\ t = 0
    /\ metrics = NoMetrics
    /\ PairIdle
    /\ lo = args.e_lo
    /\ hi = args.e_hi
    /\ metrics_lo = NoMetrics
    /\ metrics_hi = NoMetrics
    /\ it = 0
    /\ evaluated = <<>>
    /\ result = NoResult
    /\ SweepIdle
    /\ ServerIdle
    /\ pc = "opt_start"

\* the positions at which simulate_once is being called (optimizer.py lines 34,
\* 40/45, 49; main.py line 94)
Calls == {"call_lo", "call_hi", "call_mid", "call_single"}

\* lines 32-34: lo, hi = e_lo, e_hi and the call at lo
OptStart ==
    /\ pc = "opt_start"
    /\ cfg' = [cfg EXCEPT !.E = lo]
    /\ pc' = "call_lo"
    /\ UNCHANGED <<returns, k, t, metrics, pvars, ovars, svars, wvars>>

\* simulate_once(returns=returns, E=..., **sim_kwargs)
OptKernel ==
    /\ pc \in Calls
    /\ metrics' = simulate_once(cfg, returns)
    /\ evaluated' = Append(evaluated, [E |-> cfg.E, metrics |-> metrics'])
    /\ pc' = CASE pc = "call_lo" -> "got_lo"
               [] pc = "call_hi" -> "got_hi"
               [] pc = "call_mid" -> "got_mid"
               [] pc = "call_single" -> "got_single"
    /\ UNCHANGED <<cfg, returns, k, t, pvars, args, lo, hi, metrics_lo, metrics_hi,
                   it, result, svars, wvars>>

\* lines 34-40: metrics_lo, the return when it misses the target, the call at hi
OptGotLo ==
    /\ pc = "got_lo"
    /\ metrics_lo' = metrics
    /\ IF fails_target(args, metrics)
       THEN /\ result' = [E |-> lo, metrics |-> metrics]
            /\ cfg' = cfg
            /\ pc' = "opt_done"
       ELSE /\ result' = result
            /\ cfg' = [cfg EXCEPT !.E = hi]
            /\ pc' = "call_hi"
    /\ UNCHANGED <<returns, k, t, metrics, pvars, args, lo, hi, metrics_hi, it, evaluated, svars, wvars>>

\* lines 40 and 45: metrics_hi
OptGotHi ==
    /\ pc = "got_hi"
    /\ metrics_hi' = metrics
    /\ pc' = "opt_expand"
    /\ UNCHANGED <<kvars, pvars, args, lo, hi, metrics_lo, it, evaluated, result, svars, wvars>>

\* lines 41-45: one iteration of the expansion loop, up to its kernel call
OptExpand ==
    /\ pc = "opt_expand"
    /\ expands(args, hi, metrics_hi)
    /\ Len(evaluated) < MaxEvals
    /\ lo' = hi
    /\ metrics_lo' = metrics_hi
    /\ hi' = ExpandHi(hi)
    /\ cfg' = [cfg EXCEPT !.E = ExpandHi(hi)]
    /\ pc' = "call_hi"
    /\ UNCHANGED <<returns, k, t, metrics, pvars, args, metrics_hi, it, evaluated, result, svars, wvars>>

\* line 41: the loop condition is false
OptExpandExit ==
    /\ pc = "opt_expand"
    /\ ~expands(args, hi, metrics_hi)
    /\ pc' = "opt_bisect"
    /\ UNCHANGED <<kvars, pvars, ovars, svars, wvars>>

\* lines 47-49: one iteration of the bisection, up to its kernel call
OptBisect ==
    /\ pc = "opt_bisect"
    /\ it < args.e_search_iters
    /\ cfg' = [cfg EXCEPT !.E = Mid(lo, hi)]
    /\ pc' = "call_mid"
    /\ UNCHANGED <<returns, k, t, metrics, pvars, ovars, svars, wvars>>

\* lines 50-54: the rest of the iteration
OptGotMid ==
    /\ pc = "got_mid"
    /\ LET b == bisect_step(args, lo, hi, metrics_lo, metrics)
       IN  /\ lo' = b.lo
           /\ hi' = b.hi
           /\ metrics_lo' = b.metrics_lo
    /\ it' = it + 1
    /\ pc' = "opt_bisect"
    /\ UNCHANGED <<kvars, pvars, args, metrics_hi, evaluated, result, svars, wvars>>

\* line 56
OptReturn ==
    /\ pc = "opt_bisect"
    /\ it >= args.e_search_iters
    /\ result' = [E |-> lo, metrics |-> metrics_lo]
    /\ pc' = "opt_done"
    /\ UNCHANGED <<kvars, pvars, args, lo, hi, metrics_lo, metrics_hi, it, evaluated, svars, wvars>>

NextOpt ==
    \/ OptStart
    \/ OptKernel
    \/ OptGotLo
    \/ OptGotHi
    \/ OptExpand
    \/ OptExpandExit
    \/ OptBisect
    \/ OptGotMid
    \/ OptReturn

SpecOpt == InitOpt /\ [][NextOpt]_vars

(***************************************************************************)
(* Two calls of simulate_once side by side: the same returns matrix and    *)
(* the same keywords but for E, cfg.E <= cfgb.E.  Each action runs one     *)
(* block of the year loop in both calls.                                   *)
(***************************************************************************)
InitPair ==
    /\ \E ry \in PairReserves, e1 \in PairEs, e2 \in PairEs :
          /\ e1 <= e2
          /\ cfg = [PairCfg EXCEPT !.reserve_years = ry, !.E = e1]
          /\ cfgb = [PairCfg EXCEPT !.reserve_years = ry, !.E = e2]
    /\ returns \in Matrices(cfg.n_sims)
    /\ k = InitArrays(cfg, returns)
    /\ kb = InitArrays(cfgb, returns)
    /\ t = 0
    /\ pc = "growth"
    /\ metrics = NoMetrics
    /\ OptIdle
    /\ SweepIdle
    /\ ServerIdle

PairPhase(from, to, k1, kb1) ==
    /\ pc = from
    /\ k' = k1
    /\ kb' = kb1
    /\ pc' = to
    /\ UNCHANGED <<cfg, cfgb, returns, t, metrics, ovars, svars, wvars>>

PairGrowth ==
    PairPhase("growth", "loan_payment",
              Growth(k, cfg, returns, t), Growth(kb, cfgb, returns, t))

PairLoanPayment ==
    PairPhase("loan_payment", "rm_open", LoanPayment(k, cfg, t), LoanPayment(kb, cfgb, t))

PairRMOpen == PairPhase("rm_open", "rm_growth", RMOpen(k, cfg, t), RMOpen(kb, cfgb, t))

PairRMGrowth == PairPhase("rm_growth", "income", RMGrowth(k, cfg, t), RMGrowth(kb, cfgb, t))

PairIncome ==
    PairPhase("income", "spend",
              Income(k, cfg, NYears(returns), t), Income(kb, cfgb, NYears(returns), t))

PairSpend == PairPhase("spend", "funding", Spend(k, cfg, t), Spend(kb, cfgb, t))

PairFunding == PairPhase("funding", "refill", Funding(k, cfg), Funding(kb, cfgb))

PairRefill ==
    PairPhase("refill", "repay",
              Refill(k, cfg, NYears(returns), t), Refill(kb, cfgb, NYears(returns), t))

PairRepay ==
    /\ pc = "repay"
    /\ k' = Repay(k, cfg)
    /\ kb' = Repay(kb, cfgb)
    /\ t' = t + 1
    /\ pc' = IF t + 1 < NYears(returns) THEN "growth" ELSE "done"
    /\ UNCHANGED <<cfg, cfgb, returns, metrics, ovars, svars, wvars>>

NextPair ==
    \/ PairGrowth
    \/ PairLoanPayment
    \/ PairRMOpen
    \/ PairRMGrowth
    \/ PairIncome
    \/ PairSpend
    \/ PairFunding
    \/ PairRefill
    \/ PairRepay

SpecPair == InitPair /\ [][NextPair]_vars

(***************************************************************************)
(* Claims about paired calls, checked under SpecPair.                      *)
(***************************************************************************)
\* C1 as stated: with the same returns matrix and cfg.E <= cfgb.E, when both
\* calls have run all years every path has fail_idx at cfg.E >= fail_idx at
\* cfgb.E, and p_success_death_weighted and p_success_to_age_99 at cfg.E are
\* >= those at cfgb.E.
C1_failure_monotone_in_E ==
    pc = "done" =>
        /\ \A i \in Paths(cfg) : k.fail_idx[i] >= kb.fail_idx[i]
        /\ LET s1 == death_weighted_success(k.fail_idx, cfg.start_age, NYears(returns))
               s2 == death_weighted_success(kb.fail_idx, cfgb.start_age, NYears(returns))
           IN  s1.p_dw >= s2.p_dw /\ s1.p99 >= s2.p99

C8_buckets_non_negative ==
    EndOfYear =>
        \A i \in Paths(cfg) :
            /\ k.cash[i] >= 0
            /\ k.base_treas[i] >= 0
            /\ k.rm_bal[i] >= 0
            /\ k.rm_limit[i] >= 0
            /\ k.loan_bucket[i] >= 0

\* a year ends on a path whose spending asked for more than cash and base_treas
\* held: both are drained to exactly 0 and the loan bucket has been drawn on
C8_witness ==
    /\ EndOfYear
    /\ has_loan(cfg)
    /\ \E i \in Paths(cfg) :
          /\ k.spend_assets[i] > 0
          /\ k.cash[i] = 0
          /\ k.base_treas[i] = 0
          /\ k.take_loan[i] > 0
          /\ k.rm_bal[i] > 0

\* C9 as stated: once failed[i] holds, the pre-RM loan payment, the RM-open
\* payoff and the spending funding never decrease cash, base_treas, risky or
\* loan_bucket of path i and never increase its rm_bal.
C9_no_withdrawal_after_failure ==
    [][\A i \in Paths(cfg) :
          (k.failed[i] /\ pc \in {"loan_payment", "rm_open", "funding"})
              => /\ k'.cash[i] >= k.cash[i]
                 /\ k'.base_treas[i] >= k.base_treas[i]
                 /\ k'.risky[i] >= k.risky[i]
                 /\ k'.loan_bucket[i] >= k.loan_bucket[i]
                 /\ k'.rm_bal[i] <= k.rm_bal[i]]_vars

\* C10: in every year after the year a path failed, its spend_assets is 0 and
\* the refill and the RM repayment of that year move nothing on it (add_cash,
\* add_base and repay_take are 0).  The locals hold the values of year t once
\* their block has run, and those of year t - 1 when year t - 1 has just ended.
C10_failed_path_inert ==
    \A i \in Paths(cfg) :
        /\ (k.fail_idx[i] < t /\ pc \in {"funding", "refill", "repay"})
              => k.spend_assets[i] = 0
        /\ (k.fail_idx[i] < t /\ pc = "repay")
              => (k.add_cash[i] = 0 /\ k.add_base[i] = 0)
        /\ (k.fail_idx[i] < t - 1 /\ EndOfYear)
              => /\ k.spend_assets[i] = 0
                 /\ k.add_cash[i] = 0
                 /\ k.add_base[i] = 0
                 /\ k.repay_take[i] = 0

\* a year after its failure ends on a path that still holds risky assets and an
\* RM balance, in a year with no drawdown: what refill and repayment would move
C10_witness ==
    /\ EndOfYear
    /\ \E i \in Paths(cfg) :
          /\ k.fail_idx[i] < t - 1
          /\ k.risky[i] > 0
          /\ k.drawdown[i] < cfg.dd1

(***************************************************************************)
(* Claims about find_max_E, checked under SpecOpt.                         *)
(***************************************************************************)
\* the objective of a fresh kernel evaluation at e, same returns
ObjectiveAt(e) == objective_p(args, KernelAt(cfg, returns, e))

\* the call has evaluated e_lo and the objective there reaches the target
NonDegenerate ==
    Len(evaluated) >= 1 /\ objective_p(args, evaluated[1].metrics) >= args.target

EvaluatedEs == {evaluated[j].E : j \in 1 .. Len(evaluated)}

\* C2: when the objective at e_lo is >= target, metrics_lo is at every point of
\* the search the kernel's result for the current lo, and the returned pair
\* (E, metrics) has E among the evaluated values, objective(metrics) >= target
\* and metrics equal to the kernel's result for E.
C2_result_passes_target ==
    NonDegenerate =>
        /\ metrics_lo # NoMetrics => metrics_lo = KernelAt(cfg, returns, lo)
        /\ pc = "opt_done" =>
              /\ result.E \in EvaluatedEs
              /\ objective_p(args, result.metrics) >= args.target
              /\ result.metrics = KernelAt(cfg, returns, result.E)

\* a call returns, after an expansion and a bisection, an E that a bisection
\* step found: neither e_lo nor any hi of the expansion
C2_witness ==
    /\ pc = "opt_done"
    /\ NonDegenerate
    /\ it > 0
    /\ Len(evaluated) > it + 2
    /\ result.E \notin {evaluated[j].E : j \in 1 .. (Len(evaluated) - it)}

\* the widest range of E over which the objective is compared point by point
MaxProbe == 40

\* the objective is non-increasing in E from the least E the call evaluated to
\* the greatest (or the returned E + 1); not established over a range wider
\* than MaxProbe
NonIncreasingOverSearch ==
    LET es  == EvaluatedEs \cup {result.E + 1}
        low == CHOOSE e \in es : \A f \in es : e <= f
        top == CHOOSE e \in es : \A f \in es : e >= f
    IN  /\ top - low <= MaxProbe
        /\ \A e \in low .. (top - 1) : ObjectiveAt(e) >= ObjectiveAt(e + 1)

\* C3 as stated: for an objective non-increasing in E and a non-degenerate
\* start, the returned E has objective < target at E + 1, or E equals the final
\* hi.
C3_returned_E_is_maximal ==
    (pc = "opt_done" /\ NonDegenerate /\ NonIncreasingOverSearch)
        => (ObjectiveAt(result.E + 1) < args.target \/ result.E = hi)

\* C4: when the objective at e_lo is below target, find_max_E makes exactly one
\* kernel evaluation, at e_lo, touches neither hi nor the bracket nor the
\* bisection counter, and returns (e_lo, the kernel's metrics at e_lo).
C4_degenerate_return ==
    (Len(evaluated) >= 1 /\ ObjectiveAt(args.e_lo) < args.target)
        => /\ pc \in {"got_lo", "opt_done"}
           /\ Len(evaluated) = 1
           /\ evaluated[1].E = args.e_lo
           /\ lo = args.e_lo
           /\ hi = args.e_hi
           /\ metrics_hi = NoMetrics
           /\ it = 0
           /\ pc = "opt_done" =>
                 result = [E |-> args.e_lo, metrics |-> KernelAt(cfg, returns, args.e_lo)]

\* a call has returned e_lo with an objective below a positive target
C4_witness ==
    /\ pc = "opt_done"
    /\ ObjectiveAt(args.e_lo) < args.target
    /\ result.E = args.e_lo
    /\ Len(evaluated) = 1

\* C5 as stated: every iteration of the expansion loop strictly increases hi,
\* and a call that returns after the bisection has made exactly e_search_iters
\* bisection evaluations.
C5_expansion_increases_hi ==
    [][/\ (pc = "opt_expand" /\ pc' = "call_hi") => hi' > hi
       /\ (pc = "opt_bisect" /\ pc' = "opt_done") => it = args.e_search_iters]_vars

\* the last evaluation of the expansion: the one before the bisection's
LastHi == evaluated[Len(evaluated) - it]

\* C6 as stated: when the objective still passes at the last expanded hi, with
\* hi >= 600000, the returned E is the largest evaluated E whose objective is
\* >= target.
C6_cap_returns_largest_passing ==
    (/\ pc = "opt_done"
     /\ NonDegenerate
     /\ Len(evaluated) >= it + 2
     /\ LastHi.E >= ECap
     /\ objective_p(args, LastHi.metrics) >= args.target)
        => \A j \in 1 .. Len(evaluated) :
              objective_p(args, evaluated[j].metrics) >= args.target
                  => evaluated[j].E <= result.E

(***************************************************************************)
(* More claims about the kernel, checked under Spec.                       *)
(***************************************************************************)
\* failed and fail_idx of path i agree in the year loop's year tt: a failed
\* path carries the index of a year that has begun, a path that has not
\* failed carries the sentinel horizon
LatchAgrees(kk, tt, i) ==
    /\ kk.failed[i] => kk.fail_idx[i] <= tt
    /\ ~kk.failed[i] <=> kk.fail_idx[i] = NYears(returns)

\* C11: failed[i] never returns to false; fail_idx[i] is written only in the
\* step in which path i fails, with the current year t, and never afterwards;
\* at every point of year t failed[i] implies fail_idx[i] <= t, and not
\* failed[i] is equivalent to fail_idx[i] = horizon.
C11_failure_latch ==
    [][\A i \in Paths(cfg) :
          /\ k.failed[i] => (k'.failed[i] /\ k'.fail_idx[i] = k.fail_idx[i])
          /\ (~k.failed[i] /\ k'.failed[i]) => k'.fail_idx[i] = t
          /\ (~k.failed[i] /\ ~k'.failed[i]) => k'.fail_idx[i] = k.fail_idx[i]
          /\ LatchAgrees(k, t, i)
          /\ LatchAgrees(k', t', i)]_vars

\* a path that failed in an earlier year is below its floor again in the
\* feasibility check of a later year, and keeps the earlier index
C11_witness ==
    /\ pc = "funding"
    /\ \E i \in Paths(cfg) :
          /\ k.failed[i]
          /\ k.fail_idx[i] < t
          /\ k.max_feasible[i] < k.floor_need_assets[i]

\* C12: with loan_amount = 0, loan_bucket and loan_bal are 0 on every path
\* after every step of every year; no path fails in the loan-payment step or
\* in the RM-open payoff step (after either step of year t no path has
\* fail_idx = t); and the metric total_net_end_median is the median of
\* cash + base_treas + risky.
C12_no_loan_idempotence ==
    cfg.loan_amount = 0 =>
        /\ \A i \in Paths(cfg) :
              /\ k.loan_bucket[i] = 0
              /\ k.loan_bal[i] = 0
              /\ pc \in {"rm_open", "rm_growth"} => k.fail_idx[i] # t
        /\ pc = "done" =>
              metrics.total_net_end_median =
                  Median([i \in Paths(cfg) |-> k.cash[i] + k.base_treas[i] + k.risky[i]])

\* a run without a loan has ended; in its last year a path in a drawdown deep
\* enough to open the loan bucket spent more than cash and base_treas held
C12_witness ==
    /\ cfg.loan_amount = 0
    /\ pc = "done"
    /\ \E i \in Paths(cfg) :
          /\ ~k.failed[i]
          /\ k.drawdown[i] >= cfg.loan_bucket_use_dd
          /\ k.spend_assets[i] > 0
          /\ k.cash[i] = 0
          /\ k.base_treas[i] = 0

(***************************************************************************)
(* The kernel on scenarios at the edge of what ScenarioConfig admits (it   *)
(* has no validators): the reverse mortgage's opening age already passed   *)
(* at start_age, and a full repayment rate.  The year loop always goes on  *)
(* to its next block, hence the fairness.                                  *)
(***************************************************************************)
\* a loan and a home, with rm_open_age < start_age
LateStartCfg ==
    [BaseCfg EXCEPT !.loan_amount = 3000, !.rm_open_age = StartAge - 1]

\* a loan larger than the risky bucket at RM open, social security from the
\* first year, and rm_repay_rate = 1
FullRepayCfg ==
    [BaseCfg EXCEPT !.start_portfolio = 2500, !.loan_amount = 3000,
                    !.ss_annual_real = 3000, !.ss_start_age = StartAge,
                    !.rm_repay_rate = Scale]

EdgeConfigs == {LateStartCfg, FullRepayCfg}

\* path 0 in a market that falls every year, path 1 in any market
EdgeMatrices(n_sims) ==
    {R \in Matrices(n_sims) : \A y \in Years : R[0][y] = -50}

InitEdge ==
    /\ cfg \in EdgeConfigs
    /\ returns \in EdgeMatrices(cfg.n_sims)
    /\ k = InitArrays(cfg, returns)
    /\ t = 0
    /\ pc = "growth"
    /\ metrics = NoMetrics
    /\ PairIdle
    /\ OptIdle
    /\ SweepIdle
    /\ ServerIdle

SpecEdge == InitEdge /\ [][Next]_vars /\ WF_vars(Next)

\* the paths of the model's scenarios (n_sims is the same in all of them)
PathIds == Paths(BaseCfg)

\* C13 as stated: with loan_amount > 0, loan_bal has the same value on every
\* path at all times; at the end of a pre-RM year it is the closed-form
\* amortized balance after that year's payment; at the end of every simulated
\* year t >= rm_open_t it is 0 on every path.  (When EndOfYear holds the year
\* that has just ended is t - 1.)
C13_loan_cleared_at_rm_open ==
    has_loan(cfg) =>
        /\ \A i, j \in Paths(cfg) : k.loan_bal[i] = k.loan_bal[j]
        /\ (EndOfYear /\ t - 1 < rm_open_t(cfg)) =>
              \A i \in Paths(cfg) :
                  k.loan_bal[i] =
                      IF t <= cfg.loan_term_years
                      THEN loan_balance_after_k(cfg.loan_amount, cfg.loan_real_rate,
                                                pay(cfg), t)
                      ELSE 0
        /\ (EndOfYear /\ t - 1 >= rm_open_t(cfg)) =>
              \A i \in Paths(cfg) : k.loan_bal[i] = 0

\* C14 as stated: rm_ever_used never returns to false; it is false in every
\* year before rm_open_t; it is set only on a path whose rm_bal is > 0; and a
\* path whose rm_bal is > 0 at any time of a year >= rm_open_t, a balance
\* repaid in full before that year ends included, has rm_ever_used true at
\* the end of the run.
C14_rm_usage_latch ==
    /\ [][\A i \in Paths(cfg) :
             /\ k.rm_ever_used[i] => k'.rm_ever_used[i]
             /\ (~k.rm_ever_used[i] /\ k'.rm_ever_used[i]) => k'.rm_bal[i] > 0]_vars
    /\ [](\A i \in Paths(cfg) : t < rm_open_t(cfg) => ~k.rm_ever_used[i])
    /\ \A i \in PathIds :
          []((k.rm_bal[i] > 0 /\ t >= rm_open_t(cfg))
                => [](pc = "done" => k.rm_ever_used[i]))

(***************************************************************************)
(* mortality.py: death_weighted_success as a call of its own, on every     *)
(* fail_idx vector over the horizon.  k holds the argument fail_idx,       *)
(* cfg.start_age and the shape of returns give ages_model, metrics takes   *)
(* the two values returned.                                                *)
(***************************************************************************)
\* first ages of the model: the model's own, the first age of the SSA table,
\* and one inside it
MortStartAges == {StartAge, 53, 90}

MortCfgs == {[BaseCfg EXCEPT !.n_sims = 3, !.start_age = a] : a \in MortStartAges}

InitMort ==
    /\ cfg \in MortCfgs
    /\ returns = [i \in Paths(cfg) |-> [y \in Years |-> 0]]
    /\ k \in {[fail_idx |-> f] : f \in [Paths(cfg) -> 0 .. Horizon]}
    /\ t = Horizon
    /\ pc = "dws_call"
    /\ metrics = NoMetrics
    /\ PairIdle
    /\ OptIdle
    /\ SweepIdle
    /\ ServerIdle

CallDeathWeightedSuccess ==
    /\ pc = "dws_call"
    /\ \E s \in {death_weighted_success(k.fail_idx, cfg.start_age, NYears(returns))} :
          metrics' = [NoMetrics EXCEPT !.p_success_death_weighted = s.p_dw,
                                       !.p_success_to_age_99 = s.p99]
    /\ pc' = "dws_done"
    /\ UNCHANGED <<cfg, returns, k, t, pvars, ovars, svars, wvars>>

NextMort == CallDeathWeightedSuccess

SpecMort == InitMort /\ [][NextMort]_vars

\* C15: for every fail_idx vector with values in [0, horizon], the p99
\* returned is the fraction of paths with fail_idx = horizon, that number of
\* paths is n_sims less the paths ruined by year horizon - 1, the ruin counts
\* are non-decreasing in t, the death weights are non-negative and sum to
\* their common denominator, and the p_dw returned lies in [0, 1].
C15_success_counting ==
    pc = "dws_done" =>
        LET f == k.fail_idx
            h == NYears(returns)
            survivors == Cardinality({i \in DOMAIN f : f[i] = h})
        IN  /\ metrics.p_success_to_age_99 = (survivors * PScale) \div cfg.n_sims
            /\ survivors = cfg.n_sims - RuinCount(f, h - 1)
            /\ \A y \in 0 .. (h - 2) : RuinCount(f, y) <= RuinCount(f, y + 1)
            /\ \A j \in 1 .. Len(SSA_ROWS) : DxRows[j] >= 0
            /\ DxSum > 0
            /\ SumRows(DxRows, Len(SSA_ROWS)) = DxSum
            /\ metrics.p_success_death_weighted >= 0
            /\ metrics.p_success_death_weighted <= PScale

\* the call has returned for a vector in which one path failed in the first
\* year, one later and one never: both probabilities are strictly inside (0, 1)
C15_witness ==
    /\ pc = "dws_done"
    /\ \E i, j, l \in Paths(cfg) :
          /\ k.fail_idx[i] = 0
          /\ k.fail_idx[j] = NYears(returns) - 1
          /\ k.fail_idx[l] = NYears(returns)
    /\ metrics.p_success_to_age_99 > 0
    /\ metrics.p_success_to_age_99 < PScale
    /\ metrics.p_success_death_weighted > 0
    /\ metrics.p_success_death_weighted < PScale

(***************************************************************************)
(* main.py: _run_simulation, and simulate.py: main -- the sweep driver.    *)
(* req is the request (its scenario holds sim_kwargs), gen the matrix      *)
(* generate_returns made, rows the list being built, pos the indices of    *)
(* the three nested loops, resp what is emitted.  The kernel and           *)
(* find_max_E run as in SpecOpt, on cfg, returns and args.                 *)
(***************************************************************************)
\* Optional[int] = None of GridPointResult
None == -1

\* sim_kwargs of the sweeps: the optimizer's scenario, the same with
\* dd1 = dd2, and the same with reserve_cash_fraction = 1.5
ScenarioCases ==
    {OptCfg, [OptCfg EXCEPT !.dd1 = 25], [OptCfg EXCEPT !.reserve_cash_fraction = 150]}

\* start_portfolios, reserve_years_list, loan_amounts
GridCases ==
    {<<40>>, <<40, 60>>, <<60, 40>>} \X {<<1>>, <<1, 0>>} \X {<<0>>, <<30, 0>>}

\* the arguments of find_max_E taken from the scenario (main.py 103-110)
SweepArgs ==
    [ target |-> 500, e_lo |-> 8, e_hi |-> 12, e_search_iters |-> 2,
      optimize_success_metric |-> "age_99", both_weight |-> 50 ]

Requests ==
    { [ driver |-> d, mode |-> m, e_fixed |-> 8, scenario |-> c, args |-> SweepArgs,
        start_portfolios |-> g[1], reserve_years_list |-> g[2], loan_amounts |-> g[3] ] :
        d \in {"api", "legacy"}, m \in {"single", "optimize"},
        c \in ScenarioCases, g \in GridCases }

\* generate_returns: the matrix of the request's seed, one of two
SweepMatrices(n_sims) ==
    { [i \in 0 .. (n_sims - 1) |-> [y \in Years |-> 30]],
      [i \in 0 .. (n_sims - 1) |-> [y \in Years |-> IF i = 0 THEN 30 ELSE -50]] }

\* a mutant of kw_returns: a matrix of its own for every grid point but the first
kw_returns_regenerated(R, p) ==
    IF p = <<1, 1, 1>> THEN R
    ELSE [i \in DOMAIN R |-> [y \in DOMAIN R[i] |-> -50]]

\* kw["returns"] at the grid point p (main.py 90, 104; simulate.py 684, 694)
kw_returns(R, p) == R

\* kw of the grid point p (main.py 85-91)
kw_config(r, p) ==
    [r.scenario EXCEPT !.start_portfolio = r.start_portfolios[p[1]],
                       !.reserve_years = r.reserve_years_list[p[2]],
                       !.loan_amount = r.loan_amounts[p[3]]]

\* the indices of the next iteration of the three nested loops (main.py 82-84)
NextPos(r, p) ==
    IF p[3] < Len(r.loan_amounts) THEN <<p[1], p[2], p[3] + 1>>
    ELSE IF p[2] < Len(r.reserve_years_list) THEN <<p[1], p[2] + 1, 1>>
    ELSE <<p[1] + 1, 1, 1>>

\* where the driver goes after rows.append(row)
AfterRow(r, p) ==
    IF NextPos(r, p)[1] <= Len(r.start_portfolios) THEN "sweep_loop" ELSE "sweep_emit"

\* the order of sort_values(["start_portfolio", "reserve_years", "loan_amount"])
RowLess(a, b) ==
    \/ a.start_portfolio < b.start_portfolio
    \/ /\ a.start_portfolio = b.start_portfolio
       /\ \/ a.reserve_years < b.reserve_years
          \/ /\ a.reserve_years = b.reserve_years
             /\ a.loan_amount < b.loan_amount

\* row put into the sorted sequence s before the first row not less than it
InsertRow(row, s) ==
    LET ge == {i \in 1 .. Len(s) : ~RowLess(s[i], row)}
        p  == IF ge = {} THEN Len(s) + 1 ELSE CHOOSE i \in ge : \A j \in ge : i <= j
    IN  SubSeq(s, 1, p - 1) \o <<row>> \o SubSeq(s, p, Len(s))

RECURSIVE SortRows(_)
\* pd.DataFrame(rows).sort_values([...]) (simulate.py 705)
SortRows(s) == IF s = <<>> THEN <<>> ELSE InsertRow(Head(s), SortRows(Tail(s)))

InitSweep ==
    /\ req \in Requests
    /\ cfg = req.scenario
    /\ returns = [i \in Paths(cfg) |-> [y \in Years |-> 0]]
    /\ k = InitArrays(cfg, returns)
    /\ t = 0
    /\ metrics = NoMetrics
    /\ PairIdle
    /\ OptIdle
    /\ gen = <<>>
    /\ rows = <<>>
    /\ pos = <<0, 0, 0>>
    /\ resp = NoResponse
    /\ ServerIdle
    /\ pc = "sweep_start"

\* main.py 34-38 and 81: the returns matrix, once, and the empty list
SweepStart ==
    /\ pc = "sweep_start"
    /\ gen' \in SweepMatrices(req.scenario.n_sims)
    /\ rows' = <<>>
    /\ pos' = <<1, 1, 1>>
    /\ pc' = "sweep_loop"
    /\ UNCHANGED <<kvars, pvars, ovars, req, resp, wvars>>

\* main.py 85-94: kw and the kernel call of single mode
SweepSingle ==
    /\ pc = "sweep_loop"
    /\ req.mode = "single"
    /\ cfg' = [kw_config(req, pos) EXCEPT !.E = req.e_fixed]
    /\ returns' = kw_returns(gen, pos)
    /\ evaluated' = <<>>
    /\ pc' = "call_single"
    /\ UNCHANGED <<k, t, metrics, pvars, args, lo, hi, metrics_lo, metrics_hi, it,
                   result, svars, wvars>>

\* main.py 85-91, 102-112: kw and the call of find_max_E
SweepOptimize ==
    /\ pc = "sweep_loop"
    /\ req.mode # "single"
    /\ cfg' = [kw_config(req, pos) EXCEPT !.E = req.args.e_lo]
    /\ returns' = kw_returns(gen, pos)
    /\ args' = req.args
    /\ lo' = req.args.e_lo
    /\ hi' = req.args.e_hi
    /\ metrics_lo' = NoMetrics
    /\ metrics_hi' = NoMetrics
    /\ it' = 0
    /\ evaluated' = <<>>
    /\ result' = NoResult
    /\ pc' = "opt_start"
    /\ UNCHANGED <<k, t, metrics, pvars, svars, wvars>>

\* main.py 95-101, 120: the row of single mode
SweepRowSingle ==
    /\ pc = "got_single"
    /\ rows' = Append(rows, [ start_portfolio |-> cfg.start_portfolio,
                              reserve_years |-> cfg.reserve_years,
                              loan_amount |-> cfg.loan_amount,
                              max_E_real_per_year |-> None,
                              E_real_per_year |-> req.e_fixed,
                              metrics |-> metrics ])
    /\ pos' = NextPos(req, pos)
    /\ pc' = AfterRow(req, pos)
    /\ UNCHANGED <<kvars, pvars, ovars, req, gen, resp, wvars>>

\* main.py 113-120: the row of optimize mode
SweepRowOptimize ==
    /\ pc = "opt_done"
    /\ rows' = Append(rows, [ start_portfolio |-> cfg.start_portfolio,
                              reserve_years |-> cfg.reserve_years,
                              loan_amount |-> cfg.loan_amount,
                              max_E_real_per_year |-> result.E,
                              E_real_per_year |-> None,
                              metrics |-> result.metrics ])
    /\ pos' = NextPos(req, pos)
    /\ pc' = AfterRow(req, pos)
    /\ UNCHANGED <<kvars, pvars, ovars, req, gen, resp, wvars>>

\* main.py 122-127: the response; simulate.py 705-718: the sorted table
SweepEmit ==
    /\ pc = "sweep_emit"
    /\ resp' = [ status |-> "completed",
                 results |-> IF req.driver = "legacy" THEN SortRows(rows) ELSE rows,
                 total_grid_points |-> Len(rows) ]
    /\ pc' = "sweep_done"
    /\ UNCHANGED <<kvars, pvars, ovars, req, gen, rows, pos, wvars>>

NextSweep ==
    \/ SweepStart
    \/ SweepSingle
    \/ SweepOptimize
    \/ SweepRowSingle
    \/ SweepRowOptimize
    \/ SweepEmit
    \/ NextOpt

SpecSweep == InitSweep /\ [][NextSweep]_vars

(***************************************************************************)
(* Claims about the sweep driver, checked under SpecSweep.                 *)
(***************************************************************************)
\* C17: every kernel call of a sweep -- the call of single mode and, inside
\* find_max_E, the calls at e_lo, at each expanded hi and at each mid, at
\* every grid point -- is given the matrix generated at the start of the
\* sweep, and no step after the generation changes that matrix, the kernel
\* call included.
C17_shared_read_only_returns ==
    [][/\ pc \in Calls => (returns = gen /\ returns' = returns)
       /\ pc # "sweep_start" => gen' = gen]_vars

\* find_max_E is calling the kernel at a bisection mid, at a grid point that
\* is not the first, after calls at e_lo and at hi
C17_witness ==
    /\ pc = "call_mid"
    /\ pos # <<1, 1, 1>>
    /\ Len(evaluated) >= 2
    /\ Len(rows) >= 1
    /\ returns = gen

\* C18 as stated: the driver emits exactly one row per element of
\* start_portfolios x reserve_years_list x loan_amounts, in nested listed
\* order (start_portfolio outermost, loan_amount innermost);
\* total_grid_points is the product of the three lengths; and each row
\* carries exactly one of E_real_per_year (single mode) and
\* max_E_real_per_year (optimize mode).
C18_sweep_order_and_completeness ==
    pc = "sweep_done" =>
        LET n1 == Len(req.start_portfolios)
            n2 == Len(req.reserve_years_list)
            n3 == Len(req.loan_amounts)
            out == resp.results
        IN  /\ Len(out) = n1 * n2 * n3
            /\ resp.total_grid_points = n1 * n2 * n3
            /\ \A a \in 1 .. n1, b \in 1 .. n2, c \in 1 .. n3 :
                  LET row == out[((a - 1) * n2 + (b - 1)) * n3 + c]
                  IN  /\ row.start_portfolio = req.start_portfolios[a]
                      /\ row.reserve_years = req.reserve_years_list[b]
                      /\ row.loan_amount = req.loan_amounts[c]
            /\ \A n \in 1 .. Len(out) :
                  IF req.mode = "single"
                  THEN out[n].E_real_per_year # None /\ out[n].max_E_real_per_year = None
                  ELSE out[n].E_real_per_year = None /\ out[n].max_E_real_per_year # None

\* C19 as stated: a scenario with dd1 >= dd2, cut1 or cut2 outside [0, 1],
\* reserve_cash_fraction outside [0, 1], negative n_sims or start_age > 99
\* never reaches find_max_E or simulate_once: whenever either is being
\* called, the scenario has none of these errors.
C19_config_errors_rejected ==
    pc \in (Calls \cup {"opt_start"}) =>
        /\ cfg.dd1 < cfg.dd2
        /\ cfg.cut1 >= 0 /\ cfg.cut1 <= Scale
        /\ cfg.cut2 >= 0 /\ cfg.cut2 <= Scale
        /\ cfg.reserve_cash_fraction >= 0 /\ cfg.reserve_cash_fraction <= Scale
        /\ cfg.n_sims >= 0
        /\ cfg.start_age <= 99

(***************************************************************************)
(* main.py: the HTTP service.  One event-loop thread runs the coroutines   *)
(* health and simulate up to their next await; asyncio.to_thread hands     *)
(* _run_simulation to a thread of the loop's default pool.  sims[i] is the *)
(* i-th POST /simulate (where it runs, the locals of its _run_simulation), *)
(* health the GET /health in flight.  The sweep itself is SpecSweep; here  *)
(* it advances one grid point per step.                                    *)
(***************************************************************************)
\* POST /simulate requests followed
MaxSims == 3

\* sizes of a request's grid (start_portfolios x reserve_years_list x loan_amounts)
GridSizes == {1, 2}

\* threads of the default executor
PoolSize == 2

SimIds == 1 .. MaxSims

NoSim == [st |-> "none", thread |-> "none", n |-> 0, gen |-> [owner |-> 0], rows |-> <<>>]

\* a mutant of run_thread: simulate calls _run_simulation itself
run_thread_inline(i) == "loop"

\* await asyncio.to_thread(_run_simulation, req) (main.py 132)
run_thread(i) == "worker"

\* the event-loop thread is not inside a _run_simulation call
LoopFree ==
    \A i \in SimIds : sims[i].thread = "loop" => sims[i].st \notin {"submitted", "running"}

\* pool threads inside a _run_simulation call
Busy == {i \in SimIds : sims[i].thread = "worker" /\ sims[i].st = "running"}

InitServer ==
    /\ cfg = BaseCfg
    /\ returns = [i \in Paths(cfg) |-> [y \in Years |-> 0]]
    /\ k = InitArrays(cfg, returns)
    /\ t = 0
    /\ metrics = NoMetrics
    /\ PairIdle
    /\ OptIdle
    /\ SweepIdle
    /\ sims = [i \in SimIds |-> NoSim]
    /\ health = "none"
    /\ pc = "serving"

\* the loop starts the coroutine simulate(req), which submits the call and awaits
ReceiveSimulate ==
    /\ LoopFree
    /\ \E i \in SimIds, n \in GridSizes :
          /\ sims[i].st = "none"
          /\ sims' = [sims EXCEPT ![i] = [NoSim EXCEPT !.st = "submitted",
                                                       !.thread = run_thread(i),
                                                       !.n = n]]
    /\ UNCHANGED <<kvars, pvars, ovars, svars, health, pc>>

\* a free thread takes the call: main.py 34-38 and 81
WorkerStart ==
    /\ \E i \in SimIds :
          /\ sims[i].st = "submitted"
          /\ sims[i].thread = "worker" => Cardinality(Busy) < PoolSize
          /\ sims' = [sims EXCEPT ![i].st = "running", ![i].gen = [owner |-> i],
                                  ![i].rows = <<>>]
    /\ UNCHANGED <<kvars, pvars, ovars, svars, health, pc>>

\* one grid point: main.py 85-120
WorkerPoint ==
    /\ \E i \in SimIds :
          /\ sims[i].st = "running"
          /\ Len(sims[i].rows) < sims[i].n
          /\ sims' = [sims EXCEPT ![i].rows =
                         Append(@, [point |-> Len(@) + 1, returns |-> sims[i].gen])]
    /\ UNCHANGED <<kvars, pvars, ovars, svars, health, pc>>

\* main.py 122-127
WorkerReturn ==
    /\ \E i \in SimIds :
          /\ sims[i].st = "running"
          /\ Len(sims[i].rows) = sims[i].n
          /\ sims' = [sims EXCEPT ![i].st = "returned"]
    /\ UNCHANGED <<kvars, pvars, ovars, svars, health, pc>>

\* the loop resumes simulate(req) and sends the response
SendResponse ==
    /\ LoopFree
    /\ \E i \in SimIds :
          /\ sims[i].st = "returned"
          /\ sims' = [sims EXCEPT ![i].st = "answered"]
    /\ UNCHANGED <<kvars, pvars, ovars, svars, health, pc>>

\* a GET /health arrives
ReceiveHealth ==
    /\ health \in {"none", "answered"}
    /\ health' = "pending"
    /\ UNCHANGED <<kvars, pvars, ovars, svars, sims, pc>>

\* the loop runs health() (main.py 27-29)
AnswerHealth ==
    /\ LoopFree
    /\ health = "pending"
    /\ health' = "answered"
    /\ UNCHANGED <<kvars, pvars, ovars, svars, sims, pc>>

NextServer ==
    \/ ReceiveSimulate
    \/ WorkerStart
    \/ WorkerPoint
    \/ WorkerReturn
    \/ SendResponse
    \/ ReceiveHealth
    \/ AnswerHealth

\* the event loop runs a handler that is ready whenever its thread is free;
\* nothing is assumed about the progress of the pool threads
SpecServer == InitServer /\ [][NextServer]_vars /\ WF_vars(AnswerHealth)

\* C20: every POST /simulate runs on a pool thread, never on the event-loop
\* thread; a GET /health in flight is eventually answered, whatever the
\* simulations in progress do; each request's sweep works on a returns
\* matrix of its own, and a step of one request changes nothing of another.
C20_non_blocking_requests ==
    /\ [](\A i \in SimIds :
             /\ sims[i].st # "none" => sims[i].thread = "worker"
             /\ sims[i].st \in {"running", "returned", "answered"} => sims[i].gen.owner = i
             /\ \A n \in 1 .. Len(sims[i].rows) : sims[i].rows[n].returns.owner = i)
    /\ [][\A i, j \in SimIds :
             (i # j /\ sims'[i] # sims[i]) => sims'[j] = sims[j]]_vars
    /\ (health = "pending") ~> (health = "answered")

\* a GET /health is in flight while two sweeps are under way on the pool
\* threads and a third request waits for a thread
C20_witness ==
    /\ health = "pending"
    /\ Cardinality(Busy) = PoolSize
    /\ \E i \in SimIds : sims[i].st = "submitted"
    /\ \A i \in Busy : Len(sims[i].rows) >= 1

(***************************************************************************)
(* loan.py on its own: amort_payment and the schedule of                   *)
(* loan_balance_after_k for k = 0 .. term, held in k.loan_bal as the       *)
(* kernel holds it (engine.py lines 195-200).                              *)
(***************************************************************************)
\* principal, rate (in 1/Scale), term
LoanPrincipals == {-1000, 0, 1000, 3000, 12000}

LoanRates == {1, 3, 5, 10}

LoanTerms == {1, 2, 3, 5}

LoanCfgs ==
    { [BaseCfg EXCEPT !.loan_amount = P, !.loan_real_rate = r, !.loan_term_years = n] :
        P \in LoanPrincipals, r \in LoanRates, n \in LoanTerms }

\* the balance after j payments of pay(c)
BalanceAfter(c, j) ==
    loan_balance_after_k(c.loan_amount, c.loan_real_rate, pay(c), j)

InitLoan ==
    /\ cfg \in LoanCfgs
    /\ returns = [i \in Paths(cfg) |-> [y \in Years |-> 0]]
    /\ k = [InitArrays(cfg, returns) EXCEPT
              !.loan_bal = [i \in Paths(cfg) |-> BalanceAfter(cfg, 0)]]
    /\ t = 0
    /\ metrics = NoMetrics
    /\ PairIdle
    /\ OptIdle
    /\ SweepIdle
    /\ ServerIdle
    /\ pc = "amort"

\* one more payment: loan_bal[:] = loan_balance_after_k(..., t + 1)
AmortStep ==
    /\ pc = "amort"
    /\ t < cfg.loan_term_years
    /\ k' = [k EXCEPT !.loan_bal = [i \in Paths(cfg) |-> BalanceAfter(cfg, t + 1)]]
    /\ t' = t + 1
    /\ UNCHANGED <<cfg, returns, metrics, pvars, ovars, svars, wvars, pc>>

\* the term is over
AmortEnd ==
    /\ pc = "amort"
    /\ t = cfg.loan_term_years
    /\ pc' = "amort_done"
    /\ UNCHANGED <<kvars, pvars, ovars, svars, wvars>>

NextLoan ==
    \/ AmortStep
    \/ AmortEnd

SpecLoan == InitLoan /\ [][NextLoan]_vars

\* the precision of the fixed-point schedule: one unit of rate resolution
LoanTol(P) == P \div Scale

\* C21: for P > 0, r > 0, n >= 1 and pay = amort_payment(P, r, n) the balance
\* after 0 payments is P, the balance after n payments is 0 to the precision
\* of the arithmetic, the balance never increases from one payment to the
\* next; for P <= 0 the payment and every balance are 0.
C21_amortization_law ==
    [][/\ cfg.loan_amount > 0 =>
             /\ pay(cfg) > 0
             /\ t = 0 => \A i \in Paths(cfg) : k.loan_bal[i] = cfg.loan_amount
             /\ t' = cfg.loan_term_years =>
                   \A i \in Paths(cfg) :
                       /\ k'.loan_bal[i] <= LoanTol(cfg.loan_amount)
                       /\ k'.loan_bal[i] >= -LoanTol(cfg.loan_amount)
             /\ \A i \in Paths(cfg) : k'.loan_bal[i] <= k.loan_bal[i]
       /\ cfg.loan_amount <= 0 =>
             /\ pay(cfg) = 0
             /\ \A i \in Paths(cfg) : k.loan_bal[i] = 0 /\ k'.loan_bal[i] = 0]_vars

\* a loan of five payments has been paid down to its last balance
C21_witness ==
    /\ pc = "amort_done"
    /\ cfg.loan_amount > 0
    /\ t = cfg.loan_term_years
    /\ t >= 5
    /\ \A i \in Paths(cfg) : k.loan_bal[i] < pay(cfg)

(***************************************************************************)
(* Claims about single blocks of the year loop, checked under Spec.        *)
(***************************************************************************)
\* what the step about to be taken takes out of the four buckets of path i,
\* plus what it adds to the RM balance
Debited(i) ==
    (k.risky[i] - k'.risky[i]) + (k.base_treas[i] - k'.base_treas[i])
    + (k.cash[i] - k'.cash[i]) + (k.loan_bucket[i] - k'.loan_bucket[i])
    + (k'.rm_bal[i] - k.rm_bal[i])

\* C22 as stated: in the payoff of year rm_open_t with a loan, a risky-first
\* path (dd <= payoff_dd_threshold) has risky reduced by
\* min(loan_bal, max(risky, 0)) and draws on the RM only for the rest; an
\* RM-first path has rm_bal increased by min(loan_bal, avail_rm); on every
\* path what is debited from risky, base_treas, cash and loan_bucket plus the
\* increase of rm_bal equals loan_bal minus the unpaid residual.
C22_payoff_accounting ==
    [][(pc = "rm_open" /\ t = rm_open_t(cfg) /\ has_loan(cfg)) =>
          \A i \in Paths(cfg) :
              LET from_risky == Min(k.loan_bal[i], Max(k.risky[i], 0))
                  room       == avail_rm(k'.rm_limit[i], k.rm_bal[i])
              IN  /\ k.drawdown[i] <= cfg.payoff_dd_threshold =>
                        /\ k'.risky[i] = k.risky[i] - from_risky
                        /\ k'.rm_bal[i] - k.rm_bal[i]
                              = Min(k.loan_bal[i] - from_risky, room)
                  /\ k.drawdown[i] > cfg.payoff_dd_threshold =>
                        k'.rm_bal[i] - k.rm_bal[i] = Min(k.loan_bal[i], room)
                  /\ Debited(i) = k.loan_bal[i] - k'.rem[i]]_vars

\* C23: in the funding step of every year, on every path not failed after the
\* feasibility check: base_treas is drawn only if the draw left cash at 0; the
\* partial loan-bucket draw is positive only where dd >= loan_bucket_use_dd
\* and the partial RM draw only where dd >= dd2, each at most its
\* partial-cover fraction of what was left to fund; risky then gives what is
\* still left, up to its balance; the second RM draw is positive only if
\* risky was left at 0; the final loan-bucket draw is positive only if
\* dd >= loan_bucket_use_dd and no RM credit is left.
C23_funding_order ==
    [][pc = "funding" =>
          \A i \in Paths(cfg) :
              ~k.failed[i] =>
                  LET from_cash  == k.cash[i] - k'.cash[i]
                      from_base  == k.base_treas[i] - k'.base_treas[i]
                      from_risky == k.risky[i] - k'.risky[i]
                      rem2       == k.spend_assets[i] - from_cash - from_base
                      rem3       == rem2 - k'.take_loan[i]
                      rem4       == rem3 - k'.take_rm[i]
                      last_loan  == (k.loan_bucket[i] - k'.loan_bucket[i]) - k'.take_loan[i]
                  IN  /\ from_base > 0 => k'.cash[i] = 0
                      /\ k'.take_loan[i] > 0 => k.drawdown[i] >= cfg.loan_bucket_use_dd
                      /\ k'.take_loan[i] <= Frac(rem2, cfg.loan_bucket_partial_cover)
                      /\ k'.take_rm[i] > 0 => k.drawdown[i] >= cfg.dd2
                      /\ k'.take_rm[i] <= Frac(rem3, cfg.rm_partial_cover)
                      /\ from_risky = Min(rem4, Max(k.risky[i], 0))
                      /\ k'.take_rm2[i] > 0 => k'.risky[i] = 0
                      /\ last_loan >= 0
                      /\ last_loan > 0 =>
                            /\ k.drawdown[i] >= cfg.loan_bucket_use_dd
                            /\ avail_rm(k'.rm_limit[i], k'.rm_bal[i]) = 0]_vars

\* the funding of a live path has just used the partial loan-bucket draw, the
\* partial RM draw, all of risky and the second RM draw
C23_witness ==
    /\ pc = "refill"
    /\ \E i \in Paths(cfg) :
          /\ ~k.failed[i]
          /\ k.take_loan[i] > 0
          /\ k.take_rm[i] > 0
          /\ k.take_rm2[i] > 0
          /\ k.risky[i] = 0
          /\ k.rem[i] = 0

(***************************************************************************)
(* simulate_once from its entry: the set-up before the year loop (lines    *)
(* 108-160) is a step of its own, which ends the call when the division    *)
(* of amort_payment raises ZeroDivisionError.                              *)
(***************************************************************************)
\* loan amount, loan rate, loan term
CallLoans == {<<0, 3, 3>>, <<3000, 3, 3>>, <<3000, 0, 3>>, <<3000, 3, 0>>, <<0, 0, 0>>}

\* start portfolio, baseline_e_for_flex, baseline_net_post_ss
CallBases == {<<12000, 10000, 5000>>, <<0, 0, 0>>, <<12000, 0, 5000>>}

CallCfgs ==
    { [BaseCfg EXCEPT !.loan_amount = l[1], !.loan_real_rate = l[2],
                      !.loan_term_years = l[3], !.start_portfolio = b[1],
                      !.baseline_e_for_flex = b[2], !.baseline_net_post_ss = b[3]] :
        l \in CallLoans, b \in CallBases }

\* float division by 0.0 in amort_payment (loan.py line 9): for principal > 0
\* the denominator 1 - (1 + r) ** (-n) is 0.0 when r = 0 or n = 0
amort_payment_raises(principal, rate_real, term_years) ==
    principal > 0 /\ AmortDenom(rate_real, term_years) = 0

\* a loan of one payment, amortized a year before the credit line opens
ShortLoanCfg ==
    [BaseCfg EXCEPT !.loan_amount = 3000, !.loan_term_years = 1,
                    !.rm_open_age = StartAge + 2]

InitCall ==
    /\ cfg \in CallCfgs \cup {ShortLoanCfg}
    /\ returns \in EdgeMatrices(cfg.n_sims)
    /\ k = InitArrays(cfg, returns)
    /\ t = 0
    /\ pc = "setup"
    /\ metrics = NoMetrics
    /\ PairIdle
    /\ OptIdle
    /\ SweepIdle
    /\ ServerIdle

\* lines 108-160: the scalars (pay among them) and the arrays
CallSetup ==
    /\ pc = "setup"
    /\ pc' = IF amort_payment_raises(cfg.loan_amount, cfg.loan_real_rate,
                                     cfg.loan_term_years)
             THEN "raised" ELSE "growth"
    /\ UNCHANGED <<kvars, pvars, ovars, svars, wvars>>

NextCall ==
    \/ CallSetup
    \/ Next

SpecCall == InitCall /\ [][NextCall]_vars

\* C24 as stated: for loan_amount >= 0, loan_real_rate >= 0 and
\* loan_term_years >= 0, a zero rate or a zero term with a positive loan
\* included, no call of simulate_once ends with an error.
C24_kernel_never_aborts ==
    (cfg.loan_amount >= 0 /\ cfg.loan_real_rate >= 0 /\ cfg.loan_term_years >= 0)
        => pc # "raised"

\* C25: in the funding step of every year, on every path not failed after the
\* feasibility check, nothing is left to fund after the seven draws, and what
\* was taken from the path's sources is at least floor_need_assets and at
\* most max_feasible.
C25_spending_fully_funded ==
    [][pc = "funding" =>
          \A i \in Paths(cfg) :
              ~k.failed[i] =>
                  /\ k'.rem[i] <= 0
                  /\ Debited(i) = k.spend_assets[i] - k'.rem[i]
                  /\ Debited(i) >= k.floor_need_assets[i]
                  /\ Debited(i) <= k.max_feasible[i]]_vars

\* a live path wanted more than it could raise: its funding has taken all that
\* was feasible, the second RM draw included, and left every source empty
C25_witness ==
    /\ pc = "refill"
    /\ \E i \in Paths(cfg) :
          /\ ~k.failed[i]
          /\ k.asset_desired[i] > k.max_feasible[i]
          /\ k.spend_assets[i] = k.max_feasible[i]
          /\ k.take_rm2[i] > 0
          /\ k.rem[i] = 0
          /\ k.cash[i] = 0
          /\ k.base_treas[i] = 0
          /\ k.risky[i] = 0

(***************************************************************************)
(* More claims about death_weighted_success, checked under SpecMort.       *)
(***************************************************************************)
\* the weights of the both_weighted objective, in 1/Scale
BothWeights == {0, 30, 50, 100}

\* the arguments of find_max_E that objective_p reads
ObjectiveArgs(metric, w) ==
    [NoArgs EXCEPT !.optimize_success_metric = metric, !.both_weight = w]

LaneCfgs ==
    {c \in Configs : /\ c.ss_annual_real > 0 /\ c.home_value_real > 0
                     /\ c.loan_amount > 0 /\ c.rm_bal_real_rate = 2}

\* the other path's returns in the second call: all bad years or all good years
OtherRows == {[y \in Years |-> -50], [y \in Years |-> 30]}

InitLanes ==
    /\ cfg \in LaneCfgs
    /\ cfgb = cfg
    /\ returns \in Matrices(cfg.n_sims)
    /\ gen \in {R \in Matrices(cfg.n_sims) : R[0] = returns[0] /\ R[1] \in OtherRows}
    /\ k = InitArrays(cfg, returns)
    /\ kb = InitArrays(cfgb, gen)
    /\ t = 0
    /\ pc = "growth"
    /\ metrics = NoMetrics
    /\ OptIdle
    /\ req = NoRequest
    /\ rows = <<>>
    /\ pos = <<0, 0, 0>>
    /\ resp = NoResponse
    /\ ServerIdle

\* risky *= 1 + returns[:, t], each call with its own matrix
LanesGrowth ==
    PairPhase("growth", "loan_payment",
              Growth(k, cfg, returns, t), Growth(kb, cfgb, gen, t))

NextLanes ==
    \/ LanesGrowth
    \/ PairLoanPayment
    \/ PairRMOpen
    \/ PairRMGrowth
    \/ PairIncome
    \/ PairSpend
    \/ PairFunding
    \/ PairRefill
    \/ PairRepay

SpecLanes == InitLanes /\ [][NextLanes]_vars

\* C27: after every block of every year, every array of the kernel has on path 0 the same
\* value in the two calls, whatever the returns of the other path are and
\* whether it fails or not.
C27_lane_independence ==
    \A f \in DOMAIN k : k[f][0] = kb[f][0]

\* both calls have run all years; the other path failed in the first call and
\* not in the second, and path 0 is live in both
C27_witness ==
    /\ pc = "done"
    /\ k.failed[1]
    /\ ~kb.failed[1]
    /\ ~k.failed[0]
    /\ k.risky[1] # kb.risky[1]

\* C28 as stated: with a loan whose term ends before RM open, in a pre-RM
\* year t >= loan_term_years the loan-payment block takes nothing from cash,
\* base_treas, risky or loan_bucket and marks no path failed.
C28_no_payment_after_term ==
    [][(/\ pc = "loan_payment"
        /\ has_loan(cfg)
        /\ cfg.loan_term_years < rm_open_t(cfg)
        /\ t >= cfg.loan_term_years
        /\ t < rm_open_t(cfg))
          => \A i \in Paths(cfg) :
                /\ k'.cash[i] = k.cash[i]
                /\ k'.base_treas[i] = k.base_treas[i]
                /\ k'.risky[i] = k.risky[i]
                /\ k'.loan_bucket[i] = k.loan_bucket[i]
                /\ k'.failed[i] = k.failed[i]]_vars

\* C29: in the scenarios of Spec (start_portfolio >= 0, reserve_years >= 0,
\* fractions in [0, 1], returns >= -0.99) risky is >= 0 on every path after
\* every block of every year, and the risky drawdown and its running maximum
\* lie in [0, 1].
C29_risky_non_negative ==
    \A i \in Paths(cfg) :
        /\ k.risky[i] >= 0
        /\ k.drawdown[i] >= 0
        /\ k.drawdown[i] <= Scale
        /\ k.max_dd_risky[i] >= 0
        /\ k.max_dd_risky[i] <= Scale

\* a year ends on a live path whose risky bucket, still positive after the
\* growth of that year, has been drawn down to exactly 0
C29_witness ==
    /\ EndOfYear
    /\ \E i \in Paths(cfg) :
          /\ ~k.failed[i]
          /\ k.hwm[i] > 0
          /\ k.drawdown[i] < Scale
          /\ k.risky[i] = 0

(***************************************************************************)
(* Two calls of simulate_once on the same returns matrix whose keywords    *)
(* differ only in allow_surplus_savings and seed (SpecPair's steps).       *)
(***************************************************************************)
\* scenarios with social security income and a home
FlagCfgs ==
    {c \in Configs : /\ c.ss_annual_real > 0 /\ c.home_value_real > 0
                     /\ c.rm_bal_real_rate = 2}

InitFlags ==
    /\ cfg \in FlagCfgs
    /\ cfgb = [cfg EXCEPT !.allow_surplus_savings = ~cfg.allow_surplus_savings,
                          !.seed = cfg.seed + 1]
    /\ returns \in Matrices(cfg.n_sims)
    /\ k = InitArrays(cfg, returns)
    /\ kb = InitArrays(cfgb, returns)
    /\ t = 0
    /\ pc = "growth"
    /\ metrics = NoMetrics
    /\ OptIdle
    /\ SweepIdle
    /\ ServerIdle

SpecFlags == InitFlags /\ [][NextPair]_vars

\* C30: two calls that differ only in allow_surplus_savings and in seed have
\* the same arrays after every block of every year, and the same metrics; in
\* a year with income, on every path, failed ones included, the deposit of
\* the surplus max(0, income - desired) fills cash up to its target, then
\* base_treas up to its target, and puts the rest into risky (all of it into
\* risky under risky_first), so that cash + base_treas + risky grows by
\* exactly the surplus.
C30_surplus_ignores_flag ==
    [][/\ k = kb
       /\ k' = kb'
       /\ pc' = "done" => Metrics(k', cfg, returns) = Metrics(kb', cfgb, returns)
       /\ (pc = "income" /\ income_scalar(cfg, t) > 0) =>
             \A i \in Paths(cfg) :
                 LET tgt     == safe_targets(cfg, cfg.E, NYears(returns), t)
                     surplus == Max(0, income_scalar(cfg, t) - k'.desired[i])
                     to_cash == Min(Max(0, tgt.cash - k.cash[i]), surplus)
                     to_base == Min(Max(0, tgt.base - k.base_treas[i]), surplus - to_cash)
                 IN  /\ k'.surplus[i] = surplus
                     /\ (k'.cash[i] + k'.base_treas[i] + k'.risky[i])
                           - (k.cash[i] + k.base_treas[i] + k.risky[i]) = surplus
                     /\ cfg.surplus_allocation = "risky_first" =>
                           k'.risky[i] = k.risky[i] + surplus
                     /\ cfg.surplus_allocation # "risky_first" =>
                           /\ k'.cash[i] = k.cash[i] + to_cash
                           /\ k'.base_treas[i] = k.base_treas[i] + to_base
                           /\ k'.risky[i] = k.risky[i] + (surplus - to_cash - to_base)]_vars

\* the income of a later year has just been applied in two calls with
\* opposite allow_surplus_savings: a path that failed earlier has had a
\* surplus deposited
C30_witness ==
    /\ pc = "spend"
    /\ cfg.allow_surplus_savings # cfgb.allow_surplus_savings
    /\ \E i \in Paths(cfg) :
          /\ k.failed[i]
          /\ k.fail_idx[i] < t
          /\ k.surplus[i] > 0
          /\ income_scalar(cfg, t) > k.desired[i]

=============================================================================
